---------------------------- MODULE Spec2Model ----------------------------
(***************************************************************************)
(* Model of the AI journaling companion: the local NLP pipeline            *)
(* (services/nlp_service.py), the reflection composer                      *)
(* (services/reflection_service.py), the in-memory store                   *)
(* (storage/memory_store.py) and the two HTTP handlers (main.py).          *)
(*                                                                         *)
(* Texts are sequences of one-character strings, so that lower-casing,     *)
(* substring search and the regular expression \b<keyword>\b are computed  *)
(* character by character, as the code computes them.  Polarity and        *)
(* subjectivity are integers in thousandths (0.1 is 100): the seeds of     *)
(* generate_reflection are int(abs(x * 1000)).                             *)
(***************************************************************************)
EXTENDS Integers, Sequences, FiniteSets, TLC

\* ------------------------------------------------------------------ bounds

\* A text is at most MaxFragments fragments joined by single spaces.
MaxFragments == 2

\* A text of the two-analyses specification is at most MaxPairFragments fragments.
MaxPairFragments == 1

\* Number of identifiers uuid4 can draw from.
MaxIds == 3

\* Number of values other code draws from the generator before it is seeded again.
MaxDraws == 3

\* -------------------------------------------------------------- characters

LowerLetters ==
    << "a","b","c","d","e","f","g","h","i","j","k","l","m",
       "n","o","p","q","r","s","t","u","v","w","x","y","z" >>

UpperLetters ==
    << "A","B","C","D","E","F","G","H","I","J","K","L","M",
       "N","O","P","Q","R","S","T","U","V","W","X","Y","Z" >>

Digits == {"0","1","2","3","4","5","6","7","8","9"}

Whitespace == {" ", "\t", "\n"}

Range(s) == {s[i] : i \in DOMAIN s}

\* str.lower() on one character
LowerChar(c) ==
    IF \E i \in DOMAIN UpperLetters : UpperLetters[i] = c
    THEN LowerLetters[CHOOSE i \in DOMAIN UpperLetters : UpperLetters[i] = c]
    ELSE c

\* str.lower()
lower(text) ==
    SubSeq([i \in DOMAIN text |-> LowerChar(text[i])], 1, Len(text))

\* the regular expression class \w
WordChars == Range(LowerLetters) \cup Range(UpperLetters) \cup Digits \cup {"_"}

IsWordChar(c) == c \in WordChars

\* str.strip(): drop leading and trailing whitespace
RECURSIVE LStrip(_)
LStrip(text) ==
    IF text # <<>> /\ Head(text) \in Whitespace THEN LStrip(Tail(text)) ELSE text

RECURSIVE RStrip(_)
RStrip(text) ==
    IF text # <<>> /\ text[Len(text)] \in Whitespace
    THEN RStrip(SubSeq(text, 1, Len(text) - 1))
    ELSE text

strip(text) == RStrip(LStrip(text))

\* `keyword in text` on strings
IsSubstring(keyword, text) ==
    \E i \in 1..(Len(text) - Len(keyword) + 1) :
        /\ text[i] = keyword[1]
        /\ SubSeq(text, i, i + Len(keyword) - 1) = keyword

\* the regular expression assertion \b at the gap after position p (0..Len):
\* exactly one side of the gap is a \w character
WordBoundary(text, p) ==
    LET before == p >= 1 /\ IsWordChar(text[p])
        after  == p < Len(text) /\ IsWordChar(text[p + 1])
    IN  before # after

\* ---------------------------------------------------------- lexicon tables

\* EMOTIONAL_BURDEN_KEYWORDS (nlp_service.py lines 18-25)
EMOTIONAL_BURDEN_KEYWORDS ==
    << <<"s","t","r","e","s","s">>,
       <<"s","t","r","e","s","s","e","d">>,
       <<"s","t","r","e","s","s","f","u","l">>,
       <<"a","n","x","i","o","u","s">>,
       <<"a","n","x","i","e","t","y">>,
       <<"o","v","e","r","w","h","e","l","m","e","d">>,
       <<"o","v","e","r","w","h","e","l","m","i","n","g">>,
       <<"p","r","e","s","s","u","r","e">>,
       <<"p","r","e","s","s","u","r","e","d">>,
       <<"w","o","r","r","i","e","d">>,
       <<"w","o","r","r","y">>,
       <<"w","o","r","r","y","i","n","g">>,
       <<"t","e","n","s","e">>,
       <<"t","e","n","s","i","o","n">>,
       <<"b","u","r","d","e","n">>,
       <<"b","u","r","d","e","n","e","d">>,
       <<"e","x","h","a","u","s","t","e","d">>,
       <<"e","x","h","a","u","s","t","i","n","g">>,
       <<"e","x","h","a","u","s","t","i","o","n">>,
       <<"d","r","a","i","n","e","d">>,
       <<"b","u","r","n","t"," ","o","u","t">>,
       <<"b","u","r","n","o","u","t">>,
       <<"s","t","r","u","g","g","l","i","n","g">>,
       <<"s","t","r","u","g","g","l","e">>,
       <<"d","i","f","f","i","c","u","l","t">>,
       <<"h","a","r","d">>,
       <<"t","o","u","g","h">>,
       <<"h","e","a","v","y">>,
       <<"w","e","i","g","h","e","d"," ","d","o","w","n">>,
       <<"t","i","r","e","d">>,
       <<"f","a","t","i","g","u","e">>,
       <<"f","r","u","s","t","r","a","t","e","d">>,
       <<"f","r","u","s","t","r","a","t","i","o","n">>,
       <<"f","r","u","s","t","r","a","t","i","n","g">> >>

\* LOW_ENERGY_KEYWORDS (nlp_service.py lines 30-36)
LOW_ENERGY_KEYWORDS ==
    << <<"b","o","r","e","d">>,
       <<"b","o","r","i","n","g">>,
       <<"u","n","m","o","t","i","v","a","t","e","d">>,
       <<"n","o"," ","m","o","t","i","v","a","t","i","o","n">>,
       <<"d","o","n","'","t"," ","f","e","e","l"," ","l","i","k","e">>,
       <<"c","a","n","'","t"," ","b","e"," ","b","o","t","h","e","r","e","d">>,
       <<"m","e","h">>,
       <<"w","h","a","t","e","v","e","r">>,
       <<"s","l","e","e","p","y">>,
       <<"r","e","s","t","l","e","s","s">>,
       <<"s","c","r","o","l","l","i","n","g">>,
       <<"w","a","i","t","i","n","g">>,
       <<"n","o","t","h","i","n","g">>,
       <<"e","m","p","t","y">>,
       <<"n","u","m","b">>,
       <<"f","l","a","t">>,
       <<"d","i","s","e","n","g","a","g","e","d">>,
       <<"d","i","s","c","o","n","n","e","c","t","e","d">>,
       <<"a","p","a","t","h","e","t","i","c">>,
       <<"i","n","d","i","f","f","e","r","e","n","t">>,
       <<"p","r","o","c","r","a","s","t","i","n","a","t","i","n","g">>,
       <<"a","v","o","i","d","i","n","g">>,
       <<"d","i","s","t","r","a","c","t","e","d">>,
       <<"u","n","f","o","c","u","s","e","d">> >>

\* RUMINATION_KEYWORDS (nlp_service.py lines 41-45)
RUMINATION_KEYWORDS ==
    << <<"k","e","e","p"," ","l","o","o","p","i","n","g">>,
       <<"l","o","o","p","i","n","g">>,
       <<"c","a","n","'","t"," ","s","t","o","p"," ","t","h","i","n","k","i","n","g">>,
       <<"s","h","o","u","l","d"," ","h","a","v","e">>,
       <<"s","h","o","u","l","d"," ","b","e">>,
       <<"o","v","e","r","t","h","i","n","k","i","n","g">>,
       <<"s","t","u","c","k"," ","t","h","i","n","k","i","n","g">>,
       <<"r","u","n","n","i","n","g"," ","t","h","r","o","u","g","h"," ","m","y"," ","h","e","a","d">>,
       <<"c","a","n","'","t"," ","g","e","t"," ","o","u","t"," ","o","f"," ","m","y"," ","h","e","a","d">>,
       <<"r","e","p","l","a","y","i","n","g">>,
       <<"g","o","i","n","g"," ","o","v","e","r"," ","a","n","d"," ","o","v","e","r">> >>

\* EXPLICIT_ANXIETY_KEYWORDS (nlp_service.py lines 50-54)
EXPLICIT_ANXIETY_KEYWORDS ==
    << <<"a","n","x","i","o","u","s">>,
       <<"a","n","x","i","e","t","y">>,
       <<"w","o","r","r","i","e","d">>,
       <<"w","o","r","r","y">>,
       <<"w","o","r","r","y","i","n","g">>,
       <<"p","a","n","i","c">>,
       <<"p","a","n","i","c","k","i","n","g">>,
       <<"s","t","r","e","s","s","e","d">>,
       <<"s","t","r","e","s","s">>,
       <<"s","t","r","e","s","s","f","u","l">>,
       <<"t","e","n","s","e">>,
       <<"t","e","n","s","i","o","n">>,
       <<"n","e","r","v","o","u","s">>,
       <<"o","n"," ","e","d","g","e">>,
       <<"f","r","e","a","k","i","n","g"," ","o","u","t">> >>

\* PRESSURE_KEYWORDS (nlp_service.py lines 60-64)
PRESSURE_KEYWORDS ==
    << <<"s","o"," ","m","u","c","h"," ","t","o"," ","d","o">>,
       <<"f","e","e","l"," ","b","e","h","i","n","d">>,
       <<"b","e","h","i","n","d"," ","o","n">>,
       <<"t","o","o"," ","m","u","c","h">>,
       <<"o","v","e","r","w","h","e","l","m","e","d">>,
       <<"p","r","e","s","s","u","r","e">>,
       <<"f","a","l","l","i","n","g"," ","b","e","h","i","n","d">>,
       <<"c","a","n","'","t"," ","k","e","e","p"," ","u","p">>,
       <<"d","r","o","w","n","i","n","g"," ","i","n">>,
       <<"b","u","r","i","e","d"," ","i","n">>,
       <<"s","w","a","m","p","e","d">> >>

\* NUMBNESS_KEYWORDS (nlp_service.py lines 70-75)
NUMBNESS_KEYWORDS ==
    << <<"b","l","a","n","k">>,
       <<"n","u","m","b">>,
       <<"e","m","p","t","y">>,
       <<"f","l","a","t">>,
       <<"j","u","s","t"," ","e","x","i","s","t","i","n","g">>,
       <<"p","a","s","s","i","n","g"," ","t","h","e"," ","t","i","m","e">>,
       <<"n","o","t","h","i","n","g"," ","f","e","e","l","s">>,
       <<"e","m","o","t","i","o","n","l","e","s","s">>,
       <<"v","o","i","d">>,
       <<"n","o","t"," ","r","e","a","l","l","y"," ","s","a","d">>,
       <<"n","o","t"," ","r","e","a","l","l","y"," ","h","a","p","p","y">> >>

\* THEME_KEYWORDS (nlp_service.py lines 78-118), theme name -> keyword list
THEME_KEYWORDS ==
       ("gratitude" :> << <<"g","r","a","t","e","f","u","l">>,
            <<"t","h","a","n","k","f","u","l">>,
            <<"a","p","p","r","e","c","i","a","t","e">>,
            <<"b","l","e","s","s","e","d">>,
            <<"f","o","r","t","u","n","a","t","e">>,
            <<"t","h","a","n","k">>,
            <<"g","r","a","t","i","t","u","d","e">>,
            <<"a","p","p","r","e","c","i","a","t","i","o","n">>,
            <<"l","u","c","k","y">>,
            <<"p","r","i","v","i","l","e","g","e">> >>)
    @@ ("stress" :> << <<"s","t","r","e","s","s">>,
            <<"s","t","r","e","s","s","e","d">>,
            <<"a","n","x","i","o","u","s">>,
            <<"a","n","x","i","e","t","y">>,
            <<"o","v","e","r","w","h","e","l","m","e","d">>,
            <<"p","r","e","s","s","u","r","e">>,
            <<"w","o","r","r","i","e","d">>,
            <<"w","o","r","r","y">>,
            <<"t","e","n","s","e">>,
            <<"b","u","r","d","e","n">>,
            <<"e","x","h","a","u","s","t","e","d">> >>)
    @@ ("relationships" :> << <<"f","r","i","e","n","d">>,
            <<"f","a","m","i","l","y">>,
            <<"p","a","r","t","n","e","r">>,
            <<"r","e","l","a","t","i","o","n","s","h","i","p">>,
            <<"l","o","v","e">>,
            <<"s","p","o","u","s","e">>,
            <<"b","o","y","f","r","i","e","n","d">>,
            <<"g","i","r","l","f","r","i","e","n","d">>,
            <<"h","u","s","b","a","n","d">>,
            <<"w","i","f","e">>,
            <<"m","o","t","h","e","r">>,
            <<"f","a","t","h","e","r">>,
            <<"s","i","s","t","e","r">>,
            <<"b","r","o","t","h","e","r">>,
            <<"c","o","l","l","e","a","g","u","e">> >>)
    @@ ("work" :> << <<"w","o","r","k">>,
            <<"j","o","b">>,
            <<"c","a","r","e","e","r">>,
            <<"o","f","f","i","c","e">>,
            <<"p","r","o","j","e","c","t">>,
            <<"m","e","e","t","i","n","g">>,
            <<"d","e","a","d","l","i","n","e">>,
            <<"b","o","s","s">>,
            <<"c","o","w","o","r","k","e","r">>,
            <<"p","r","o","f","e","s","s","i","o","n","a","l">>,
            <<"b","u","s","i","n","e","s","s">>,
            <<"t","a","s","k">>,
            <<"a","s","s","i","g","n","m","e","n","t">>,
            <<"p","r","o","m","o","t","i","o","n">>,
            <<"i","n","t","e","r","v","i","e","w">> >>)
    @@ ("health" :> << <<"h","e","a","l","t","h">>,
            <<"e","x","e","r","c","i","s","e">>,
            <<"w","o","r","k","o","u","t">>,
            <<"f","i","t","n","e","s","s">>,
            <<"s","l","e","e","p">>,
            <<"d","i","e","t">>,
            <<"n","u","t","r","i","t","i","o","n">>,
            <<"d","o","c","t","o","r">>,
            <<"m","e","d","i","c","a","l">>,
            <<"s","i","c","k">>,
            <<"i","l","l","n","e","s","s">>,
            <<"e","n","e","r","g","y">>,
            <<"t","i","r","e","d">>,
            <<"f","a","t","i","g","u","e">>,
            <<"p","a","i","n">> >>)
    @@ ("growth" :> << <<"l","e","a","r","n">>,
            <<"g","r","o","w","t","h">>,
            <<"i","m","p","r","o","v","e">>,
            <<"p","r","o","g","r","e","s","s">>,
            <<"d","e","v","e","l","o","p">>,
            <<"g","o","a","l">>,
            <<"a","c","h","i","e","v","e","m","e","n","t">>,
            <<"s","u","c","c","e","s","s">>,
            <<"a","c","c","o","m","p","l","i","s","h">>,
            <<"b","e","t","t","e","r">>,
            <<"c","h","a","l","l","e","n","g","e">>,
            <<"o","p","p","o","r","t","u","n","i","t","y">>,
            <<"p","o","t","e","n","t","i","a","l">>,
            <<"s","k","i","l","l">> >>)
    @@ ("creativity" :> << <<"c","r","e","a","t","e">>,
            <<"c","r","e","a","t","i","v","e">>,
            <<"a","r","t">>,
            <<"m","u","s","i","c">>,
            <<"w","r","i","t","e">>,
            <<"w","r","i","t","i","n","g">>,
            <<"p","a","i","n","t">>,
            <<"d","e","s","i","g","n">>,
            <<"i","m","a","g","i","n","e">>,
            <<"i","n","s","p","i","r","a","t","i","o","n">>,
            <<"p","r","o","j","e","c","t">>,
            <<"c","r","a","f","t">>,
            <<"h","o","b","b","y">>,
            <<"e","x","p","r","e","s","s">>,
            <<"i","d","e","a">> >>)
    @@ ("loss" :> << <<"g","r","i","e","f">>,
            <<"m","o","u","r","n","i","n","g">>,
            <<"m","i","s","s">>,
            <<"m","i","s","s","i","n","g">>,
            <<"d","e","a","t","h">>,
            <<"d","i","e","d">>,
            <<"g","o","n","e">>,
            <<"l","o","s","t"," ","s","o","m","e","o","n","e">>,
            <<"f","a","r","e","w","e","l","l">>,
            <<"g","o","o","d","b","y","e">>,
            <<"l","o","s","i","n","g"," ","h","e","r">>,
            <<"l","o","s","i","n","g"," ","h","i","m">>,
            <<"l","o","s","t"," ","m","y">>,
            <<"l","o","s","t"," ","h","e","r">>,
            <<"l","o","s","t"," ","h","i","m">> >>)
\* sorted(THEME_KEYWORDS.keys())
SortedThemeNames ==
    << "creativity", "gratitude", "growth", "health",
       "loss", "relationships", "stress", "work" >>

ThemeNames == Range(SortedThemeNames)

\* SENTIMENT_POSITIVE_THRESHOLD = 0.1 and SENTIMENT_NEGATIVE_THRESHOLD = -0.1
SENTIMENT_POSITIVE_THRESHOLD == 100

SENTIMENT_NEGATIVE_THRESHOLD == -100

\* ------------------------------------------------------------------- texts

\* The fragments texts are built from.  Each one carries a different
\* combination of signals:
\*   hard              burden keyword only
\*   distress          contains "stress" as a substring, not as a word
\*   swamped           pressure phrase only
\*   looping           rumination phrase only
\*   bored             low-energy keyword only
\*   Numb              low-energy keyword and numbness phrase, capitalised
\*   flatter           contains the numbness phrase "flat", not as a word
\*   grateful          one gratitude keyword
\*   thankful blessed  two gratitude keywords
\*   stress            burden, explicit anxiety and the stress theme
\*   miss              the loss theme
Fragments ==
    { <<"h","a","r","d">>,
      <<"d","i","s","t","r","e","s","s">>,
      <<"s","w","a","m","p","e","d">>,
      <<"l","o","o","p","i","n","g">>,
      <<"b","o","r","e","d">>,
      <<"N","u","m","b">>,
      <<"f","l","a","t","t","e","r">>,
      <<"g","r","a","t","e","f","u","l">>,
      <<"t","h","a","n","k","f","u","l"," ","b","l","e","s","s","e","d">>,
      <<"s","t","r","e","s","s">>,
      <<"m","i","s","s">> }

RECURSIVE Join(_)
Join(fs) ==
    IF fs = <<>> THEN <<>>
    ELSE IF Len(fs) = 1 THEN fs[1]
    ELSE fs[1] \o <<" ">> \o Join(Tail(fs))

TextsUpTo(n) == {Join(fs) : fs \in UNION {[1..k -> Fragments] : k \in 0..n}}

\* texts of whitespace only
WhitespaceTexts == { <<" ">>, <<" ", "\n">> }

\* the example of detect_themes' docstring:
\* "I'm grateful for my family and friends"
GratefulScenario ==
    << "I","'","m"," ","g","r","a","t","e","f","u","l"," ","f","o","r"," ",
       "m","y"," ","f","a","m","i","l","y"," ","a","n","d"," ","f","r","i",
       "e","n","d","s" >>

\* texts with the other two words of emotional absence, "empty" and "flat"
EmptyScenario == << "I"," ","f","e","e","l"," ","e","m","p","t","y","." >>

FlatScenario == << "F","l","a","t" >>

ScenarioTexts == { GratefulScenario, EmptyScenario, FlatScenario }

\* the contents the analysis functions are applied to
Texts == TextsUpTo(MaxFragments) \cup WhitespaceTexts \cup ScenarioTexts

PairTexts == TextsUpTo(MaxPairFragments)

\* what the lexical scorer (TextBlob) may answer for a text, in thousandths;
\* the values sit on both sides of every threshold the code compares with
PolarityGrid == {-500, -101, -100, 0, 1, 100, 101, 200, 201, 300, 301, 800}

SubjectivityGrid == {0, 499, 500}

\* the scorer's answers in the two-analyses specification
PairBlobs ==
    [polarity : {-500, -101, -100, 100, 101, 200, 201, 301}, subjectivity : {0, 500}]

\* ---------------------------------------------------------------- matchers

\* keyword matching that forgets the word boundaries
_match_keyword_substring(keyword, text) == IsSubstring(keyword, text)

\* re.search(r'\b' + re.escape(keyword) + r'\b', text)
_match_keyword_whole_word(keyword, text) ==
    \E i \in 1..(Len(text) - Len(keyword) + 1) :
        /\ text[i] = keyword[1]
        /\ SubSeq(text, i, i + Len(keyword) - 1) = keyword
        /\ WordBoundary(text, i - 1)
        /\ WordBoundary(text, i + Len(keyword) - 1)

\* _detect_emotional_burden with a keyword list that lacks its first keyword,
\* "stress"
_detect_emotional_burden_without_stress(content) ==
    LET content_lower == lower(content)
    IN  \E k \in DOMAIN EMOTIONAL_BURDEN_KEYWORDS \ {1} :
            _match_keyword_whole_word(EMOTIONAL_BURDEN_KEYWORDS[k], content_lower)

_detect_emotional_burden(content) ==
    LET content_lower == lower(content)
    IN  \E k \in DOMAIN EMOTIONAL_BURDEN_KEYWORDS :
            _match_keyword_whole_word(EMOTIONAL_BURDEN_KEYWORDS[k], content_lower)

_detect_numbness(content) ==
    LET content_lower == lower(content)
    IN  \E k \in DOMAIN NUMBNESS_KEYWORDS :
            IsSubstring(NUMBNESS_KEYWORDS[k], content_lower)

\* the four keyword scans at the head of detect_emotional_mode
has_rumination(content) ==
    LET content_lower == lower(content)
    IN  \E k \in DOMAIN RUMINATION_KEYWORDS :
            IsSubstring(RUMINATION_KEYWORDS[k], content_lower)

has_explicit_anxiety(content) ==
    LET content_lower == lower(content)
    IN  \E k \in DOMAIN EXPLICIT_ANXIETY_KEYWORDS :
            IsSubstring(EXPLICIT_ANXIETY_KEYWORDS[k], content_lower)

has_pressure(content) ==
    LET content_lower == lower(content)
    IN  \E k \in DOMAIN PRESSURE_KEYWORDS :
            IsSubstring(PRESSURE_KEYWORDS[k], content_lower)

\* has_low_energy_keywords with a keyword list that lacks "empty", "numb"
\* and "flat"
has_low_energy_keywords_without_numb(content) ==
    LET content_lower == lower(content)
    IN  \E k \in DOMAIN LOW_ENERGY_KEYWORDS \ {14, 15, 16} :
            _match_keyword_whole_word(LOW_ENERGY_KEYWORDS[k], content_lower)

has_low_energy_keywords(content) ==
    LET content_lower == lower(content)
    IN  \E k \in DOMAIN LOW_ENERGY_KEYWORDS :
            _match_keyword_whole_word(LOW_ENERGY_KEYWORDS[k], content_lower)

\* keyword_count of detect_themes for one theme
keyword_count(theme_name, content) ==
    LET content_lower == lower(content)
        keywords == THEME_KEYWORDS[theme_name]
    IN  Cardinality({k \in DOMAIN keywords :
                        _match_keyword_whole_word(keywords[k], content_lower)})

\* The keyword scans of one text.
ScanOf ==
    [t \in Texts |->
        [burden           |-> _detect_emotional_burden(t),
         numbness         |-> _detect_numbness(t),
         rumination       |-> has_rumination(t),
         explicit_anxiety |-> has_explicit_anxiety(t),
         pressure         |-> has_pressure(t),
         low_energy       |-> has_low_energy_keywords(t),
         counts           |-> [th \in ThemeNames |-> keyword_count(th, t)] @@ <<>>]]

\* The scans of every text, tabulated once (@@ builds the table): the
\* functions below read a text's scans from it.
Scans == ScanOf @@ <<>>

\* `not content or not content.strip()`
IsBlank(content) == content = <<>> \/ strip(content) = <<>>

\* ---------------------------------------------------------------- pipeline

SentimentAnalysis(p, s, l) == [polarity |-> p, subjectivity |-> s, label |-> l]

ThemeDetection(ts, c) == [themes |-> ts, confidence |-> c]

\* analyze_sentiment without the burden override
analyze_sentiment_no_burden_override(content, blob) ==
    IF IsBlank(content)
    THEN SentimentAnalysis(0, 0, "neutral")
    ELSE IF Scans[content].numbness
    THEN SentimentAnalysis(0, blob.subjectivity, "neutral")
    ELSE SentimentAnalysis(blob.polarity, blob.subjectivity,
            IF blob.polarity > SENTIMENT_POSITIVE_THRESHOLD THEN "positive"
            ELSE IF blob.polarity < SENTIMENT_NEGATIVE_THRESHOLD THEN "negative"
            ELSE "neutral")

\* analyze_sentiment whose numbness override comes after the thresholds and
\* keeps the polarity
analyze_sentiment_numbness_last(content, blob) ==
    IF IsBlank(content)
    THEN SentimentAnalysis(0, 0, "neutral")
    ELSE IF blob.polarity > SENTIMENT_POSITIVE_THRESHOLD
    THEN SentimentAnalysis(blob.polarity, blob.subjectivity,
            IF Scans[content].burden \/ Scans[content].numbness
            THEN "neutral" ELSE "positive")
    ELSE IF Scans[content].numbness
    THEN SentimentAnalysis(0, blob.subjectivity, "neutral")
    ELSE SentimentAnalysis(blob.polarity, blob.subjectivity,
            IF blob.polarity < SENTIMENT_NEGATIVE_THRESHOLD THEN "negative"
            ELSE "neutral")

\* analyze_sentiment that scores blank text like any other text
analyze_sentiment_scores_blank(content, blob) ==
    IF Scans[content].numbness
    THEN SentimentAnalysis(0, blob.subjectivity, "neutral")
    ELSE IF blob.polarity > SENTIMENT_POSITIVE_THRESHOLD
    THEN SentimentAnalysis(blob.polarity, blob.subjectivity,
            IF Scans[content].burden THEN "neutral" ELSE "positive")
    ELSE SentimentAnalysis(blob.polarity, blob.subjectivity,
            IF blob.polarity < SENTIMENT_NEGATIVE_THRESHOLD THEN "negative"
            ELSE "neutral")

\* blob is TextBlob(content).sentiment: [polarity, subjectivity]
analyze_sentiment(content, blob) ==
    IF IsBlank(content)
    THEN SentimentAnalysis(0, 0, "neutral")
    ELSE LET polarity == blob.polarity
             subjectivity == blob.subjectivity
             has_emotional_burden == Scans[content].burden
             has_numbness == Scans[content].numbness
         IN  IF has_numbness
             THEN SentimentAnalysis(0, subjectivity, "neutral")
             ELSE LET label ==
                          IF polarity > SENTIMENT_POSITIVE_THRESHOLD
                          THEN (IF has_emotional_burden THEN "neutral" ELSE "positive")
                          ELSE IF polarity < SENTIMENT_NEGATIVE_THRESHOLD
                          THEN "negative"
                          ELSE "neutral"
                  IN  SentimentAnalysis(polarity, subjectivity, label)

detect_themes(content) ==
    IF IsBlank(content)
    THEN ThemeDetection(<<>>, "low")
    ELSE LET theme_keyword_counts == Scans[content].counts
             detected_themes ==
                 SelectSeq(SortedThemeNames, LAMBDA th : theme_keyword_counts[th] > 0)
             Max(S) == CHOOSE m \in S : \A x \in S : x <= m
             max_keyword_count ==
                 IF detected_themes = <<>> THEN 0
                 ELSE Max({theme_keyword_counts[th] : th \in Range(detected_themes)})
             confidence ==
                 IF max_keyword_count >= 3 THEN "high"
                 ELSE IF max_keyword_count >= 2 THEN "medium"
                 ELSE "low"
         IN  ThemeDetection(detected_themes, confidence)

\* detect_emotional_mode without the weaker low-energy band
detect_emotional_mode_strong_band_only(content, sentiment, themes, has_emotional_burden) ==
    LET sc == Scans[content]
    IN  IF \/ has_emotional_burden
           \/ "stress" \in Range(themes.themes) \/ "loss" \in Range(themes.themes)
           \/ sc.rumination \/ sc.explicit_anxiety
        THEN "anxious"
        ELSE IF sc.low_energy /\ sentiment.polarity <= 300 /\ sentiment.subjectivity < 500
        THEN "low_energy"
        ELSE "calm"

\* detect_emotional_mode that tests the low-energy keywords before the
\* explicit-anxiety keywords
detect_emotional_mode_low_energy_first(content, sentiment, themes, has_emotional_burden) ==
    LET sc == Scans[content]
        low == sc.low_energy
               /\ (\/ (sentiment.polarity <= 300 /\ sentiment.subjectivity < 500)
                   \/ (-100 <= sentiment.polarity /\ sentiment.polarity <= 200))
    IN  IF \/ has_emotional_burden
           \/ "stress" \in Range(themes.themes) \/ "loss" \in Range(themes.themes)
           \/ sc.rumination
        THEN "anxious"
        ELSE IF low THEN "low_energy"
        ELSE IF sc.explicit_anxiety THEN "anxious"
        ELSE "calm"

\* detect_emotional_mode in which a pressure phrase alone means anxious
detect_emotional_mode_pressure_alone(content, sentiment, themes, has_emotional_burden) ==
    LET sc == Scans[content]
        low == sc.low_energy
               /\ (\/ (sentiment.polarity <= 300 /\ sentiment.subjectivity < 500)
                   \/ (-100 <= sentiment.polarity /\ sentiment.polarity <= 200))
    IN  IF \/ has_emotional_burden
           \/ "stress" \in Range(themes.themes) \/ "loss" \in Range(themes.themes)
           \/ sc.rumination \/ sc.explicit_anxiety \/ sc.pressure
        THEN "anxious"
        ELSE IF low THEN "low_energy"
        ELSE "calm"

detect_emotional_mode(content, sentiment, themes, has_emotional_burden) ==
    LET rumination == Scans[content].rumination
        explicit_anxiety == Scans[content].explicit_anxiety
        pressure == Scans[content].pressure
        low_energy_keywords == Scans[content].low_energy
    IN  IF has_emotional_burden THEN "anxious"
        ELSE IF "stress" \in Range(themes.themes) \/ "loss" \in Range(themes.themes)
        THEN "anxious"
        ELSE IF rumination THEN "anxious"
        ELSE IF explicit_anxiety THEN "anxious"
        ELSE IF pressure /\ (rumination \/ explicit_anxiety) THEN "anxious"
        ELSE IF low_energy_keywords
                /\ (\/ (sentiment.polarity <= 300 /\ sentiment.subjectivity < 500)
                    \/ (-100 <= sentiment.polarity /\ sentiment.polarity <= 200))
        THEN "low_energy"
        ELSE "calm"

\* analyze_entry without the low-energy correction
analyze_entry_uncorrected(content, blob) ==
    LET sentiment == analyze_sentiment(content, blob)
        themes == detect_themes(content)
    IN  << sentiment, themes,
           detect_emotional_mode(content, sentiment, themes, Scans[content].burden) >>

\* analyze_entry whose low-energy correction leaves the label as it was
analyze_entry_keeps_label(content, blob) ==
    LET sentiment == analyze_sentiment(content, blob)
        themes == detect_themes(content)
        mode == detect_emotional_mode(content, sentiment, themes, Scans[content].burden)
    IN  IF mode = "low_energy" /\ sentiment.polarity > 0
        THEN << SentimentAnalysis(-100, sentiment.subjectivity, sentiment.label), themes, mode >>
        ELSE << sentiment, themes, mode >>

\* returns the tuple (sentiment, themes, mode)
analyze_entry(content, blob) ==
    LET sentiment == analyze_sentiment(content, blob)
        themes == detect_themes(content)
        has_emotional_burden == Scans[content].burden
        mode == detect_emotional_mode(content, sentiment, themes, has_emotional_burden)
    IN  IF mode = "low_energy" /\ sentiment.polarity > 0
        THEN << SentimentAnalysis(-100, sentiment.subjectivity, "neutral"), themes, mode >>
        ELSE << sentiment, themes, mode >>

\* -------------------------------------------------------------- reflection

\* The template pools; a template is named by its pool and its position.
ACKNOWLEDGMENT_TEMPLATES ==
    [positive |-> <<"ack.positive.0", "ack.positive.1", "ack.positive.2", "ack.positive.3">>,
     neutral  |-> <<"ack.neutral.0", "ack.neutral.1", "ack.neutral.2", "ack.neutral.3">>,
     negative |-> <<"ack.negative.0", "ack.negative.1", "ack.negative.2", "ack.negative.3">>]

MODE_ADAPTIVE_TEMPLATES ==
    [low_energy |-> <<"mode.low_energy.0", "mode.low_energy.1", "mode.low_energy.2", "mode.low_energy.3">>,
     anxious    |-> <<"mode.anxious.0", "mode.anxious.1", "mode.anxious.2", "mode.anxious.3">>,
     calm       |-> <<"mode.calm.0", "mode.calm.1", "mode.calm.2", "mode.calm.3">>]

REFLECTIVE_PROMPTS ==
    <<"prompt.0", "prompt.1", "prompt.2", "prompt.3", "prompt.4", "prompt.5">>

MODE_ADAPTIVE_PROMPTS ==
    [low_energy |-> <<"prompt.low_energy.0", "prompt.low_energy.1", "prompt.low_energy.2", "prompt.low_energy.3">>,
     anxious    |-> <<"prompt.anxious.0", "prompt.anxious.1", "prompt.anxious.2", "prompt.anxious.3">>,
     calm       |-> <<"prompt.calm.0", "prompt.calm.1", "prompt.calm.2", "prompt.calm.3">>]

THEME_ADDITIONS ==
    [gratitude     |-> "addition.gratitude",
     stress        |-> "addition.stress",
     relationships |-> "addition.relationships",
     work          |-> "addition.work",
     health        |-> "addition.health",
     growth        |-> "addition.growth",
     creativity    |-> "addition.creativity",
     loss          |-> "addition.loss"]

\* the value None
None == "<None>"

Abs(x) == IF x < 0 THEN -x ELSE x

\* random.getrandbits(3) after random.seed(seed): the first twelve values
\* CPython's generator returns, for the seeds the model uses
getrandbits3 ==
    (  0 :> << 6, 3, 6, 7, 3, 0, 2, 7, 4, 3, 3, 7 >>
    @@ 1 :> << 1, 4, 6, 6, 6, 0, 2, 0, 3, 6, 3, 3 >>
    @@ 100 :> << 1, 3, 3, 7, 6, 1, 5, 3, 5, 2, 3, 4 >>
    @@ 101 :> << 4, 6, 1, 7, 7, 4, 7, 2, 3, 0, 5, 4 >>
    @@ 200 :> << 0, 7, 1, 5, 5, 0, 1, 4, 6, 6, 2, 7 >>
    @@ 201 :> << 0, 5, 2, 3, 0, 6, 2, 2, 6, 5, 5, 5 >>
    @@ 300 :> << 4, 2, 2, 7, 0, 3, 2, 4, 6, 7, 3, 4 >>
    @@ 301 :> << 3, 5, 6, 7, 3, 4, 3, 5, 1, 7, 5, 4 >>
    @@ 499 :> << 0, 1, 6, 6, 3, 2, 4, 3, 2, 4, 0, 5 >>
    @@ 500 :> << 6, 3, 7, 4, 4, 3, 2, 5, 6, 5, 3, 1 >>
    @@ 800 :> << 5, 3, 7, 4, 0, 3, 3, 6, 4, 7, 2, 5 >> )

\* The hidden generator of module random (random._inst) after random.seed
\* and some draws: the seed and the number of values drawn since.
RandomState(seed, drawn) == [seed |-> seed, drawn |-> drawn]

random_seed_skipped(state, a) == state

\* random.seed(a)
random_seed(state, a) == RandomState(a, 0)

\* random.getrandbits(3)
random_getrandbits(state) ==
    [value |-> getrandbits3[state.seed][state.drawn + 1],
     state |-> RandomState(state.seed, state.drawn + 1)]

\* random.choice(options), for a pool of 4 to 7 options: values of three
\* bits are drawn until one is a position of the pool
RECURSIVE random_choice(_, _)
random_choice(state, options) ==
    LET r == random_getrandbits(state)
    IN  IF r.value >= Len(options)
        THEN random_choice(r.state, options)
        ELSE [value |-> options[r.value + 1], state |-> r.state]

EmpathyReflection(m, p) == [message |-> m, prompt |-> p]

\* `mode and mode in MODE_ADAPTIVE_TEMPLATES`
mode_recognized(mode) ==
    mode # None /\ mode # "" /\ mode \in DOMAIN MODE_ADAPTIVE_TEMPLATES

acknowledgment_options_by_label(sentiment, mode) ==
    ACKNOWLEDGMENT_TEMPLATES[sentiment.label]

\* the pool the acknowledgment is drawn from
acknowledgment_options(sentiment, mode) ==
    IF mode_recognized(mode)
    THEN MODE_ADAPTIVE_TEMPLATES[mode]
    ELSE ACKNOWLEDGMENT_TEMPLATES[sentiment.label]

theme_context_last_theme(themes) ==
    IF /\ themes.themes # <<>>
       /\ themes.confidence \in {"medium", "high"}
       /\ themes.themes[Len(themes.themes)] \in DOMAIN THEME_ADDITIONS
    THEN THEME_ADDITIONS[themes.themes[Len(themes.themes)]]
    ELSE None

\* the theme clause appended to the acknowledgment, None when there is none
theme_context(themes) ==
    IF themes.themes # <<>> /\ themes.confidence \in {"medium", "high"}
    THEN LET primary_theme == themes.themes[1]
         IN  IF primary_theme \in DOMAIN THEME_ADDITIONS
             THEN THEME_ADDITIONS[primary_theme]
             ELSE None
    ELSE None

prompt_options_calm_always(sentiment, themes, mode) ==
    IF mode # None /\ mode # "" /\ mode \in DOMAIN MODE_ADAPTIVE_PROMPTS
    THEN MODE_ADAPTIVE_PROMPTS[mode]
    ELSE IF sentiment.label \in {"neutral", "negative"} \/ themes.confidence = "low"
         THEN REFLECTIVE_PROMPTS
         ELSE <<>>

\* the pool the prompt is drawn from, empty when no prompt is attached
prompt_options(sentiment, themes, mode) ==
    IF mode # None /\ mode # "" /\ mode \in DOMAIN MODE_ADAPTIVE_PROMPTS
    THEN IF mode \in {"low_energy", "anxious"}
         THEN MODE_ADAPTIVE_PROMPTS[mode]
         ELSE IF /\ mode = "calm"
                 /\ \/ sentiment.label \in {"neutral", "negative"}
                    \/ themes.confidence = "low"
         THEN MODE_ADAPTIVE_PROMPTS[mode]
         ELSE <<>>
    ELSE IF sentiment.label \in {"neutral", "negative"} \/ themes.confidence = "low"
         THEN REFLECTIVE_PROMPTS
         ELSE <<>>

\* int(abs(sentiment.polarity * 1000)): polarities are kept in thousandths
seed_value(sentiment) == Abs(sentiment.polarity)

\* int(abs(sentiment.subjectivity * 1000))
prompt_seed(sentiment) == Abs(sentiment.subjectivity)

\* One call of generate_reflection that nothing interrupts, started with the
\* generator in `state`: the reflection it returns and the generator it
\* leaves.  A message is the acknowledgment and the theme clause appended
\* to it (None when there is no clause).
generate_reflection(state, sentiment, themes, mode) ==
    LET seeded == random_seed(state, seed_value(sentiment))
        base_acknowledgment ==
            random_choice(seeded, acknowledgment_options(sentiment, mode))
        message == << base_acknowledgment.value, theme_context(themes) >>
        options == prompt_options(sentiment, themes, mode)
        reseeded == random_seed(base_acknowledgment.state, prompt_seed(sentiment))
        prompt == random_choice(reseeded, options)
    IN  IF options = <<>>
        THEN [reflection |-> EmpathyReflection(message, None),
              state |-> base_acknowledgment.state]
        ELSE [reflection |-> EmpathyReflection(message, prompt.value),
              state |-> prompt.state]

\* ------------------------------------------------------------------- store

MIN_ENTRY_LENGTH == 1

MAX_ENTRY_LENGTH == 5000

\* the identifiers str(uuid.uuid4()) can return
Ids == 1..MaxIds

\* entry_id="" of a response that was not stored yet
EmptyId == 0

\* The dictionary InMemoryStore._store, in insertion order: a sequence of
\* [id, data] without repeated ids.
StoreKeys(s) == {s[i].id : i \in DOMAIN s}

store_entry_replaces_all(s, entry_id, entry_data) ==
    << [id |-> entry_id, data |-> entry_data] >>

\* self._store[entry_id] = entry_data
store_entry(s, entry_id, entry_data) ==
    IF entry_id \in StoreKeys(s)
    THEN [i \in DOMAIN s |->
            IF s[i].id = entry_id THEN [id |-> entry_id, data |-> entry_data] ELSE s[i]]
    ELSE Append(s, [id |-> entry_id, data |-> entry_data])

JournalEntryResponse(id, ts, c, se, th, re) ==
    [entry_id |-> id, timestamp |-> ts, content |-> c,
     sentiment |-> se, themes |-> th, reflection |-> re]

\* the outcomes of a request: 201 and 200 carry a record
NoBody ==
    JournalEntryResponse(EmptyId, None, <<>>, SentimentAnalysis(0, 0, None),
                         ThemeDetection(<<>>, None), EmpathyReflection(<<None, None>>, None))

\* what dict.get returns: the data stored under the key, or None
Found(entry_data) == [found |-> TRUE, data |-> entry_data]

NotFound == [found |-> FALSE, data |-> NoBody]

get_entry_any(s, entry_id) ==
    IF s = <<>> THEN NotFound ELSE Found(s[1].data)

\* self._store.get(entry_id)
get_entry(s, entry_id) ==
    IF entry_id \in StoreKeys(s)
    THEN Found(s[CHOOSE i \in DOMAIN s : s[i].id = entry_id].data)
    ELSE NotFound

\* len(self._store)
get_entry_count(s) == Len(s)

\* the value None of the global _store_instance; a store is named by its
\* position among the stores created
NoInstance == 0

\* the holder of a lock nobody holds
NoWorker == None

\* InMemoryStore(): an empty dictionary and a free lock
InMemoryStore == [_store |-> <<>>, _lock |-> NoWorker]

\* get_store that creates a store on every call
get_store_always_new(instance, created) ==
    [instance |-> Len(created) + 1, created |-> Append(created, InMemoryStore)]

\* get_store() run without interruption, given the global and the stores
\* created so far: the store it returns and the stores afterwards
get_store(instance, created) ==
    IF instance = NoInstance
    THEN [instance |-> Len(created) + 1, created |-> Append(created, InMemoryStore)]
    ELSE [instance |-> instance, created |-> created]

\* the identifiers given to entries of any store
UsedIds(created) == UNION {StoreKeys(created[i]._store) : i \in DOMAIN created}

Response(code, b) == [status |-> code, body |-> b]

\* JournalEntryInput: the Field constraints on the text as sent, then
\* validate_content_not_empty
ValidInput(raw) ==
    /\ Len(raw) >= MIN_ENTRY_LENGTH
    /\ Len(raw) <= MAX_ENTRY_LENGTH
    /\ strip(raw) # <<>>

\* the timestamps a request can carry: left out (the default factory runs),
\* null, or a datetime
Timestamps == {"utcnow", None, "2026-01-30T22:42:00"}

\* the texts a request can carry: the texts of at most one fragment, bare
\* and with whitespace around them
RawTexts ==
    LET bare == TextsUpTo(1) \cup WhitespaceTexts
    IN  bare \cup {<<" ">> \o t \o <<"\n">> : t \in bare}

\* the outcome of JournalEntryInput(content=raw, timestamp=ts) when it
\* raises ValidationError
ValidationError == [valid |-> FALSE, content |-> <<>>, timestamp |-> None]

\* JournalEntryInput(content=raw, timestamp=ts): the Field constraints are
\* checked on the text as sent, then validate_content_not_empty strips it
JournalEntryInput(raw, ts) ==
    IF Len(raw) < MIN_ENTRY_LENGTH \/ Len(raw) > MAX_ENTRY_LENGTH
    THEN ValidationError
    ELSE LET stripped == strip(raw)
         IN  IF stripped = <<>>
             THEN ValidationError
             ELSE [valid |-> TRUE, content |-> stripped, timestamp |-> ts]

\* a text of n letters
Letters(n) == [i \in 1..n |-> "a"]

\* texts around the length limit: MAX_ENTRY_LENGTH - 1, MAX_ENTRY_LENGTH and
\* MAX_ENTRY_LENGTH + 1 letters, bare and with whitespace around them
LongTexts ==
    LET bare == {Letters(n) : n \in (MAX_ENTRY_LENGTH - 1)..(MAX_ENTRY_LENGTH + 1)}
    IN  bare \cup {t \o <<" ">> : t \in bare}
             \cup {<<"\n">> \o t : t \in bare}
             \cup {<<" ">> \o t \o <<" ">> : t \in bare}


\* ------------------------------------------------------- the recent entries

\* the limit get_recent_entries has when it is called without one
DEFAULT_LIMIT == 4

\* the largest limit the model calls get_recent_entries with
MaxLimit == 4

\* the slice list[start:] of Python: a negative start counts from the end,
\* and a start outside the list is moved to its nearer end
SliceFrom(list, start) ==
    LET from == IF start < 0
                THEN (IF start + Len(list) < 0 THEN 0 ELSE start + Len(list))
                ELSE (IF start > Len(list) THEN Len(list) ELSE start)
    IN  SubSeq(list, from + 1, Len(list))

\* list(self._store.values())
StoreValues(s) == [i \in DOMAIN s |-> s[i].data]

get_recent_entries_first(s, limit) ==
    LET all_entries == StoreValues(s)
    IN  IF Len(all_entries) >= limit THEN SubSeq(all_entries, 1, limit) ELSE all_entries

\* all_entries[-limit:] if len(all_entries) >= limit else all_entries
get_recent_entries(s, limit) ==
    LET all_entries == StoreValues(s)
    IN  IF Len(all_entries) >= limit THEN SliceFrom(all_entries, 0 - limit) ELSE all_entries

NoRecentCall == [called |-> FALSE, limit |-> 0, stored |-> <<>>, entries |-> <<>>]

\* ------------------------------------------------------------- the insights

\* the longest list of recent entries generate_insights is called with
MaxRecent == 3

\* the largest entry count generate_insights is called with
MaxCount == 5

generate_engagement_note(entry_count) ==
    IF entry_count = 2 THEN "note.showing_up"
    ELSE IF entry_count \in {3, 4} THEN "note.consistently"
    ELSE None

\* Counter(list)[x]
Count(x, list) == Cardinality({i \in DOMAIN list : list[i] = x})

\* Counter(list).most_common(1)[0][0]: the greatest count wins, and among
\* equal counts the element that came first in the list
most_common_1(list) ==
    list[CHOOSE i \in DOMAIN list :
            /\ \A j \in DOMAIN list : Count(list[j], list) <= Count(list[i], list)
            /\ \A j \in 1..(i - 1) : Count(list[j], list) < Count(list[i], list)]

\* dict(Counter(list))
Counter(list) == [x \in Range(list) |-> Count(x, list)]

RECURSIVE entry_modes(_)
\* the loop of aggregate_patterns: modes.append(entry["mode"])
entry_modes(recent_entries) ==
    IF recent_entries = <<>> THEN <<>>
    ELSE (IF "mode" \in DOMAIN Head(recent_entries)
          THEN << Head(recent_entries).mode >> ELSE <<>>)
         \o entry_modes(Tail(recent_entries))

RECURSIVE entry_themes(_)
\* the loop of aggregate_patterns: themes.extend(entry["themes"]["themes"])
entry_themes(recent_entries) ==
    IF recent_entries = <<>> THEN <<>>
    ELSE (IF "themes" \in DOMAIN Head(recent_entries)
              /\ "themes" \in DOMAIN Head(recent_entries).themes
          THEN Head(recent_entries).themes.themes ELSE <<>>)
         \o entry_themes(Tail(recent_entries))

aggregate_patterns(recent_entries) ==
    IF recent_entries = <<>>
    THEN [mode_counts |-> <<>>, theme_counts |-> <<>>, dominant_mode |-> None,
          top_theme |-> None, entry_count |-> 0]
    ELSE LET modes == entry_modes(recent_entries)
             themes == entry_themes(recent_entries)
         IN  [mode_counts |-> Counter(modes),
              theme_counts |-> Counter(themes),
              dominant_mode |-> IF modes # <<>> THEN most_common_1(modes) ELSE None,
              top_theme |-> IF themes # <<>> THEN most_common_1(themes) ELSE None,
              entry_count |-> Len(recent_entries)]

\* str.capitalize on the theme names
capitalize ==
    [theme \in {"work", "health"} |-> IF theme = "work" THEN "Work" ELSE "Health"]

\* the value None where a summary is expected; a summary is the list of its
\* parts: the opening sentence, the sentence about the top theme if there
\* is one, and the closing sentence
NoReflectionSummary == << None >>

generate_reflection_summary(patterns, dominant_mode) ==
    LET entry_count == patterns.entry_count
        top_theme == patterns.top_theme
    IN  IF entry_count < 3 THEN NoReflectionSummary
        ELSE IF dominant_mode = "low_energy"
        THEN << "summary.low_energy.base" >>
             \o (IF top_theme # None THEN << "summary.low_energy.theme", top_theme >> ELSE <<>>)
             \o << "summary.low_energy.closing" >>
        ELSE IF dominant_mode = "anxious"
        THEN << "summary.anxious.base" >>
             \o (IF top_theme # None
                 THEN << "summary.anxious.theme", capitalize[top_theme] >> ELSE <<>>)
             \o << "summary.anxious.closing" >>
        ELSE IF dominant_mode = "calm"
        THEN << "summary.calm.base" >>
             \o (IF top_theme # None
                 THEN << "summary.calm.theme", capitalize[top_theme] >> ELSE <<>>)
             \o << "summary.calm.closing" >>
        ELSE NoReflectionSummary

generate_insights(entry_count, recent_entries, current_mode) ==
    [engagement_note |-> generate_engagement_note(entry_count),
     reflection_summary |->
        IF entry_count >= 3
        THEN generate_reflection_summary(aggregate_patterns(recent_entries), current_mode)
        ELSE NoReflectionSummary]

\* the entry dictionaries generate_insights is given: with and without the
\* key "mode"
InsightEntries ==
    {[mode |-> m, themes |-> ThemeDetection(ts, "low")] :
        m \in {"low_energy", "anxious", "calm"}, ts \in {<<>>, <<"work">>}}
    \cup {[themes |-> ThemeDetection(ts, "low")] : ts \in {<<>>, <<"health", "work">>}}

NoInsightsCall ==
    [called |-> FALSE, entry_count |-> 0, recent_entries |-> <<>>, current_mode |-> None,
     insights |-> [engagement_note |-> None, reflection_summary |-> NoReflectionSummary]]

\* ---------------------------------------------------- the optional refinement

\* the vocabulary _validate_refined_reflection rejects
advice_keywords ==
    << <<"s","h","o","u","l","d">>,
       <<"m","u","s","t">>,
       <<"n","e","e","d"," ","t","o">>,
       <<"h","a","v","e"," ","t","o">>,
       <<"o","u","g","h","t"," ","t","o">>,
       <<"r","e","c","o","m","m","e","n","d">>,
       <<"s","u","g","g","e","s","t">>,
       <<"a","d","v","i","s","e">>,
       <<"t","r","y"," ","t","o">> >>

clinical_terms ==
    << <<"d","i","a","g","n","o","s","i","s">>,
       <<"d","i","s","o","r","d","e","r">>,
       <<"s","y","n","d","r","o","m","e">>,
       <<"t","h","e","r","a","p","y">>,
       <<"t","r","e","a","t","m","e","n","t">>,
       <<"s","y","m","p","t","o","m","s">>,
       <<"p","s","y","c","h","i","a","t","r","i","c">>,
       <<"c","l","i","n","i","c","a","l">>,
       <<"p","a","t","h","o","l","o","g","y">>,
       <<"p","a","t","i","e","n","t">> >>

\* the words that stand for no prompt in a response
none_words ==
    { <<"n","o","n","e">>, <<"n","u","l","l">>, <<"n","/","a">> }

message_label == <<"m","e","s","s","a","g","e",":">>

prompt_label == <<"p","r","o","m","p","t",":">>

\* messages and a prompt of composed reflections (reflection_service.py lines 23, 17 and 49)
HeavyMessage ==
    << "T", "h", "i", "s", " ", "f", "e", "e", "l", "s", " ", "h", "e", "a", "v", "y", ",",
       " ", "a", "n", "d", " ", "i", "t", " ", "m", "a", "k", "e", "s", " ", "s", "e", "n",
       "s", "e", " ", "t", "h", "a", "t", " ", "i", "t", " ", "w", "o", "u", "l", "d", "." >>

ShowedUpMessage ==
    << "Y", "o", "u", " ", "s", "h", "o", "w", "e", "d", " ", "u", "p", " ", "t", "o", " ",
       "w", "r", "i", "t", "e", " ", "t", "o", "d", "a", "y", ",", " ", "e", "v", "e", "n",
       " ", "w", "i", "t", "h", "o", "u", "t", " ", "a", " ", "c", "l", "e", "a", "r", " ",
       "r", "e", "a", "s", "o", "n", " ", "t", "o", ".", " ", "T", "h", "a", "t", " ", "c",
       "o", "u", "n", "t", "s", "." >>

MorePrompt ==
    << "I", "s", " ", "t", "h", "e", "r", "e", " ", "m", "o", "r", "e", " ", "t", "h", "a",
       "t", " ", "w", "a", "n", "t", "s", " ", "t", "o", " ", "b", "e", " ", "s", "a", "i",
       "d", "?" >>

\* sentences a response is made of: two that pass the validation,
WeightSentence ==
    << "I", "t", " ", "s", "o", "u", "n", "d", "s", " ", "l", "i", "k", "e", " ", "t", "o",
       "d", "a", "y", " ", "c", "a", "r", "r", "i", "e", "d", " ", "a", " ", "l", "o", "t",
       " ", "o", "f", " ", "w", "e", "i", "g", "h", "t", " ", "f", "o", "r", " ", "y", "o",
       "u", "." >>

\* ("shoulder" contains "should", but not as a whole word)
ShoulderSentence ==
    << "Y", "o", "u", " ", "k", "e", "p", "t", " ", "g", "o", "i", "n", "g", ",", " ", "s",
       "h", "o", "u", "l", "d", "e", "r", " ", "t", "o", " ", "t", "h", "e", " ", "w", "h",
       "e", "e", "l", ",", " ", "a", "n", "d", " ", "t", "h", "a", "t", " ", "t", "o", "o",
       "k", " ", "e", "f", "f", "o", "r", "t", "." >>

\* one that is too short on its own,
ShortSentence ==
    << "I", " ", "h", "e", "a", "r", " ", "y", "o", "u", "." >>

\* one with a directive word, in capitals,
AdviceSentence ==
    << "M", "a", "y", "b", "e", " ", "y", "o", "u", " ", "S", "H", "O", "U", "L", "D", " ",
       "r", "e", "s", "t", "." >>

\* and one with a clinical word
ClinicalSentence ==
    << "T", "h", "a", "t", " ", "i", "s", " ", "n", "o", "t", " ", "a", " ", "d", "i", "a",
       "g", "n", "o", "s", "i", "s", "." >>

\* questions a response ends with: one that passes the validation,
OpenQuestion ==
    << "W", "h", "a", "t", " ", "f", "e", "l", "t", " ", "h", "e", "a", "v", "i", "e", "s",
       "t", " ", "t", "o", "d", "a", "y", "?" >>

\* one with a directive phrase,
AdviceQuestion ==
    << "W", "h", "a", "t", " ", "d", "o", " ", "y", "o", "u", " ", "n", "e", "e", "d", " ",
       "t", "o", " ", "l", "e", "t", " ", "g", "o", " ", "o", "f", "?" >>

\* the value None where a text is expected
NoText == << None >>

\* the most sentences the model puts in the message of a response
MaxSentences == 2

\* str.startswith
startswith(text, prefix) ==
    Len(text) >= Len(prefix) /\ SubSeq(text, 1, Len(prefix)) = prefix

\* the position of the first occurrence of sep in text (str.find, from 1),
\* or 0 when there is none
find(text, sep) ==
    LET hits == {i \in 1..(Len(text) - Len(sep) + 1) :
                    text[i] = sep[1] /\ SubSeq(text, i, i + Len(sep) - 1) = sep}
    IN  IF hits = {} THEN 0 ELSE CHOOSE i \in hits : \A j \in hits : i <= j

RECURSIVE split(_, _)
\* str.split(sep)
split(text, sep) ==
    LET at == find(text, sep)
    IN  IF at = 0 THEN << text >>
        ELSE << SubSeq(text, 1, at - 1) >>
             \o split(SubSeq(text, at + Len(sep), Len(text)), sep)

\* line.split(":", 1)[1], for a line that has a colon
after_colon(line) == SubSeq(line, find(line, <<":">>) + 1, Len(line))

RECURSIVE join(_, _)
\* sep.join(parts)
join(sep, parts) ==
    IF parts = <<>> THEN <<>>
    ELSE IF Len(parts) = 1 THEN parts[1]
    ELSE parts[1] \o sep \o join(sep, Tail(parts))

RECURSIVE parse_lines(_, _)
\* the loop of _parse_llm_response over the lines; st holds message_parts,
\* prompt, in_message and in_prompt
parse_lines(lines, st) ==
    IF lines = <<>> THEN st
    ELSE LET line_stripped == strip(Head(lines))
             line_lower == lower(line_stripped)
             after ==
                IF startswith(line_lower, message_label)
                THEN LET content == strip(after_colon(line_stripped))
                     IN  [st EXCEPT !.in_message = TRUE, !.in_prompt = FALSE,
                                    !.message_parts =
                                        IF content # <<>> THEN Append(@, content) ELSE @]
                ELSE IF startswith(line_lower, prompt_label)
                THEN LET prompt_text == strip(after_colon(line_stripped))
                     IN  [st EXCEPT !.in_message = FALSE, !.in_prompt = TRUE,
                                    !.prompt =
                                        IF prompt_text # <<>>
                                           /\ lower(prompt_text) \notin none_words
                                        THEN prompt_text ELSE @]
                ELSE IF st.in_message /\ line_stripped # <<>>
                THEN [st EXCEPT !.message_parts = Append(@, line_stripped)]
                ELSE IF st.in_prompt /\ line_stripped # <<>> /\ st.prompt = NoText
                THEN (IF lower(line_stripped) \notin none_words
                      THEN [st EXCEPT !.prompt = line_stripped] ELSE st)
                ELSE st
         IN  parse_lines(Tail(lines), after)

\* returns the tuple (message, prompt)
_parse_llm_response(response_text) ==
    LET text == strip(response_text)
        st == parse_lines(split(text, <<"\n">>),
                          [message_parts |-> <<>>, prompt |-> NoText,
                           in_message |-> FALSE, in_prompt |-> FALSE])
    IN  IF st.message_parts # <<>>
        THEN << join(<<" ">>, st.message_parts), st.prompt >>
        ELSE LET sentences == split(text, <<".", " ">>)
                 last_sentence == strip(sentences[Len(sentences)])
             IN  IF "?" \in Range(last_sentence)
                 THEN LET message == join(<<".", " ">>,
                                          SubSeq(sentences, 1, Len(sentences) - 1))
                      IN  << IF message # <<>> THEN strip(message) \o <<".">> ELSE message,
                             last_sentence >>
                 ELSE << text, st.prompt >>

\* `refined_prompt or ""`
or_empty(text) == IF text = NoText THEN <<>> ELSE text

\* _validate_refined_reflection that looks for the vocabulary in the message
\* only
_validate_refined_reflection_message_only(refined_message, refined_prompt, base_reflection) ==
    IF refined_message = NoText \/ strip(refined_message) = <<>> THEN FALSE
    ELSE IF Len(refined_message) < 50 THEN FALSE
    ELSE IF Len(refined_message) > 1000 THEN FALSE
    ELSE LET combined_text == lower(refined_message)
         IN  /\ \A k \in DOMAIN advice_keywords :
                  ~_match_keyword_whole_word(advice_keywords[k], combined_text)
             /\ \A k \in DOMAIN clinical_terms :
                  ~_match_keyword_whole_word(clinical_terms[k], combined_text)

_validate_refined_reflection(refined_message, refined_prompt, base_reflection) ==
    IF refined_message = NoText \/ refined_message = <<>> \/ strip(refined_message) = <<>>
    THEN FALSE
    ELSE IF Len(refined_message) < 50 THEN FALSE
    ELSE IF Len(refined_message) > 1000 THEN FALSE
    ELSE LET combined_text == lower(refined_message \o <<" ">> \o or_empty(refined_prompt))
         IN  /\ \A k \in DOMAIN advice_keywords :
                  ~_match_keyword_whole_word(advice_keywords[k], combined_text)
             /\ \A k \in DOMAIN clinical_terms :
                  ~_match_keyword_whole_word(clinical_terms[k], combined_text)

MAX_REFLECTION_LENGTH == 1000

MAX_PROMPT_LENGTH == 200

\* how a call ends: with a value returned or with an exception raised
Return(value) == [exception |-> None, value |-> value]

Raise(exception) == [exception |-> exception, value |-> EmpathyReflection(NoText, NoText)]

\* EmpathyReflection(message=message, prompt=prompt) on texts: the Field
\* constraints on the values as given, then strip_whitespace
EmpathyReflection_init(message, prompt) ==
    IF message = NoText \/ Len(message) < 1 \/ Len(message) > MAX_REFLECTION_LENGTH
    THEN Raise("ValidationError")
    ELSE IF prompt # NoText /\ Len(prompt) > MAX_PROMPT_LENGTH
    THEN Raise("ValidationError")
    ELSE Return(EmpathyReflection(strip(message),
                                  IF prompt # NoText /\ prompt # <<>> THEN strip(prompt)
                                  ELSE prompt))

\* bool(OPENAI_API_KEY) and USE_OPENAI_REFINEMENT
_is_openai_available(OPENAI_API_KEY, USE_OPENAI_REFINEMENT) ==
    OPENAI_API_KEY # "" /\ USE_OPENAI_REFINEMENT

\* what OpenAI(...), client.chat.completions.create(...) and
\* response.choices[0].message.content give together: an exception, or the
\* content of the first choice (a text, or None)
Completion(exception, content) == [exception |-> exception, content |-> content]

\* the body of the try statement of refine_reflection_with_llm
refine_try(base_reflection, completion) ==
    IF completion.exception # None THEN Raise(completion.exception)
    ELSE IF completion.content = NoText \/ completion.content = <<>>
    THEN Return(base_reflection)
    ELSE LET parsed == _parse_llm_response(completion.content)
         IN  IF ~_validate_refined_reflection(parsed[1], parsed[2], base_reflection)
             THEN Return(base_reflection)
             ELSE EmpathyReflection_init(parsed[1], parsed[2])

\* refine_reflection_with_llm given the two settings and what the service
\* does; the sentiment and the themes only go into the text sent to the service
refine_reflection_with_llm(base_reflection, OPENAI_API_KEY, USE_OPENAI_REFINEMENT, completion) ==
    IF ~_is_openai_available(OPENAI_API_KEY, USE_OPENAI_REFINEMENT)
    THEN Return(base_reflection)
    ELSE LET attempt == refine_try(base_reflection, completion)
         IN  IF attempt.exception # None THEN Return(base_reflection) ELSE attempt

\* ------------------------------------------- inputs of the refinement

BaseReflections ==
    { EmpathyReflection(HeavyMessage, MorePrompt),
      EmpathyReflection(HeavyMessage, NoText),
      EmpathyReflection(ShowedUpMessage, NoText) }

Sentences ==
    { WeightSentence, ShoulderSentence, ShortSentence, AdviceSentence, ClinicalSentence }

\* messages of up to MaxSentences sentences
Bodies ==
    {join(<<" ">>, ss) : ss \in UNION {[1..n -> Sentences] : n \in 1..MaxSentences}}

\* a text of n letters
LongWord(n) == [i \in 1..n |-> "a"]

\* a question longer than a prompt may be
LongQuestion == <<"W", "h", "y", " ">> \o LongWord(MAX_PROMPT_LENGTH) \o <<"?">>

Questions == { OpenQuestion, AdviceQuestion, LongQuestion }

\* a message longer than a reflection may be
LongBody == WeightSentence \o <<" ">> \o LongWord(MAX_REFLECTION_LENGTH) \o <<".">>

\* the texts the service answers with: in the format asked for, with "none"
\* for the prompt, with the message on two lines, without labels, with the
\* prompt label alone
ResponseTexts ==
    LET message == <<"M","e","s","s","a","g","e",":"," ">>
        prompt  == <<"P","r","o","m","p","t",":"," ">>
        none    == <<"n","o","n","e">>
        bodies  == Bodies \cup { LongBody }
    IN       {message \o b \o <<"\n">> \o prompt \o q : b \in bodies, q \in Questions}
        \cup {message \o b \o <<"\n">> \o prompt \o none : b \in bodies}
        \cup {message \o <<"\n">> \o b \o <<"\n">> \o WeightSentence \o <<"\n">>
                 \o <<"p","r","o","m","p","t",":">> \o <<"\n">> \o q : b \in Bodies, q \in Questions}
        \cup {b \o <<" ">> \o q : b \in bodies, q \in Questions}
        \cup bodies
        \cup {prompt \o q : q \in Questions}
        \cup {<<" ", "\n">>}

Completions ==
    {Completion(e, NoText) :
        e \in {"OpenAIError", "APIConnectionError", "APITimeoutError", "RateLimitError",
               "IndexError"}}
    \cup {Completion(None, NoText), Completion(None, <<>>)}
    \cup {Completion(None, t) : t \in ResponseTexts}

NoRefineCall ==
    [called |-> FALSE, base_reflection |-> EmpathyReflection(NoText, NoText),
     OPENAI_API_KEY |-> "", USE_OPENAI_REFINEMENT |-> FALSE,
     completion |-> Completion(None, NoText),
     outcome |-> Return(EmpathyReflection(NoText, NoText))]
\* ------------------------------------------------------------------- state

VARIABLES
    input_content,    \* the text an analysis function is applied to
    input_blob,       \* TextBlob(input_content).sentiment: [polarity, subjectivity]
    called,           \* the analysis function that was applied, or None
    call_args,        \* the themes and burden flag passed to detect_emotional_mode
    result,           \* what the function returned: [sentiment, themes, mode]
    prev,             \* summary of the analysis before this one, or NoSummary
    _store_instance,  \* the global _store_instance: NoInstance or a store
    instances,        \* the InMemoryStore objects created: their _store and _lock
    workers,          \* the threads that use the store: where each one is
    returned,         \* the calls of store_entry that returned: store, id, data
    request,          \* the last HTTP request
    response,         \* its outcome
    entry_input,      \* the JournalEntryInput built from the last text sent
    _inst,            \* random._inst, the generator behind random.seed and random.choice
    calls,            \* the calls of generate_reflection, one per caller
    earlier,          \* a call of generate_reflection that returned before
    recent_call,      \* the last call of get_recent_entries: its limit and what it returned
    refine_call,      \* the last call of refine_reflection_with_llm
    insights_call     \* the last call of generate_insights

vars == << input_content, input_blob, called, call_args, result, prev,
           _store_instance, instances, workers, returned,
           request, response, entry_input,
           _inst, calls, earlier,
           recent_call, refine_call, insights_call >>

side_vars == << recent_call, refine_call, insights_call >>

reflect_vars == << _inst, calls, earlier >>

nlp_vars == << input_content, input_blob, called, call_args, result, prev >>

api_vars == << _store_instance, instances, workers, returned,
              request, response, entry_input >>

NoSentiment == SentimentAnalysis(0, 0, None)

NoThemes == ThemeDetection(<<>>, None)

NoResult == [sentiment |-> NoSentiment, themes |-> NoThemes, mode |-> None]

NoArgs == [themes |-> NoThemes, has_emotional_burden |-> FALSE]

NoSummary ==
    [called |-> None, base |-> 0, burden |-> FALSE, numbness |-> FALSE,
     corrected |-> FALSE, label |-> None]

NoRequest == [op |-> None, content |-> <<>>, timestamp |-> None, entry_id |-> EmptyId]

Blobs == [polarity : PolarityGrid, subjectivity : SubjectivityGrid]

\* the theme results detect_emotional_mode is called with directly
ThemeArgs ==
    { ThemeDetection(<<>>, "low"),
      ThemeDetection(<<"gratitude">>, "medium"),
      ThemeDetection(<<"loss">>, "low"),
      ThemeDetection(<<"gratitude", "stress">>, "high") }

\* the callers of generate_reflection
Callers == {"caller1", "caller2"}

\* a caller that is not inside generate_reflection; otherwise pc is the
\* statement the call executes next: "seed" (line 166), "choice" (168),
\* "prompt_seed" (192, 196, 202), "prompt_choice" (193, 197, 203), or "done"
NoCall ==
    [pc |-> "idle", sentiment |-> NoSentiment, themes |-> NoThemes, mode |-> None,
     base_acknowledgment |-> None, reflection |-> EmpathyReflection(<<None, None>>, None)]

\* the threads that use the store
Workers == {"worker1", "worker2"}

\* a thread outside every call; `store` is the store its last get_store()
\* returned, `result` what its last get_entry or get_entry_count returned
NoWork ==
    [pc |-> "idle", store |-> NoInstance, entry_id |-> EmptyId, entry_data |-> NoBody,
     result |-> [op |-> None, entry_id |-> EmptyId, value |-> NotFound, count |-> 0]]

\* no call of get_recent_entries, refine_reflection_with_llm or generate_insights yet
InitSide ==
    /\ recent_call = NoRecentCall
    /\ refine_call = NoRefineCall
    /\ insights_call = NoInsightsCall

InitApi ==
    /\ _store_instance = NoInstance
    /\ instances = <<>>
    /\ workers = [w \in Workers |-> NoWork]
    /\ returned = {}
    /\ request = NoRequest
    /\ response = Response(0, NoBody)
    /\ entry_input = ValidationError
    /\ InitSide

\* no call of generate_reflection yet
InitNoReflection ==
    /\ _inst = RandomState(0, 0)
    /\ calls = [c \in Callers |-> NoCall]
    /\ earlier = NoCall

InitNlp(texts, blobs) ==
    /\ input_content \in texts
    /\ input_blob \in blobs
    /\ called = None
    /\ call_args = NoArgs
    /\ result = NoResult
    /\ prev = NoSummary

Init == InitNlp(Texts, Blobs) /\ InitApi /\ InitNoReflection

\* ----------------------------------------------------- analysis functions

AnalyzeSentiment ==
    /\ called = None
    /\ called' = "analyze_sentiment"
    /\ result' = [NoResult EXCEPT !.sentiment = analyze_sentiment(input_content, input_blob)]
    /\ UNCHANGED << input_content, input_blob, call_args, prev >>
    /\ UNCHANGED api_vars
    /\ UNCHANGED reflect_vars
    /\ UNCHANGED side_vars

DetectThemes ==
    /\ called = None
    /\ called' = "detect_themes"
    /\ result' = [NoResult EXCEPT !.themes = detect_themes(input_content)]
    /\ UNCHANGED << input_content, input_blob, call_args, prev >>
    /\ UNCHANGED api_vars
    /\ UNCHANGED reflect_vars
    /\ UNCHANGED side_vars

\* detect_emotional_mode called on its own: the sentiment is the scorer's,
\* the themes and the burden flag are whatever the caller passes
DetectEmotionalMode ==
    /\ called = None
    /\ \E themes \in ThemeArgs, has_emotional_burden \in BOOLEAN :
        LET sentiment == SentimentAnalysis(input_blob.polarity, input_blob.subjectivity, "neutral")
        IN  /\ call_args' = [themes |-> themes, has_emotional_burden |-> has_emotional_burden]
            /\ result' = [NoResult EXCEPT
                            !.sentiment = sentiment,
                            !.themes = themes,
                            !.mode = detect_emotional_mode(input_content, sentiment, themes,
                                                           has_emotional_burden)]
    /\ called' = "detect_emotional_mode"
    /\ UNCHANGED << input_content, input_blob, prev >>
    /\ UNCHANGED api_vars
    /\ UNCHANGED reflect_vars
    /\ UNCHANGED side_vars

AnalyzeEntry ==
    /\ called = None
    /\ called' = "analyze_entry"
    /\ LET r == analyze_entry(input_content, input_blob)
       IN  result' = [sentiment |-> r[1], themes |-> r[2], mode |-> r[3]]
    /\ UNCHANGED << input_content, input_blob, call_args, prev >>
    /\ UNCHANGED api_vars
    /\ UNCHANGED reflect_vars
    /\ UNCHANGED side_vars

Next == AnalyzeSentiment \/ DetectThemes \/ DetectEmotionalMode \/ AnalyzeEntry

Spec == Init /\ [][Next]_vars

\* Two analyses one after the other: the summary of the first is kept while
\* the second runs.
Summary ==
    [called    |-> called,
     base      |-> IF IsBlank(input_content) THEN 0 ELSE input_blob.polarity,
     burden    |-> Scans[input_content].burden,
     numbness  |-> Scans[input_content].numbness,
     corrected |-> called = "analyze_entry" /\ result.mode = "low_energy"
                   /\ analyze_sentiment(input_content, input_blob).polarity > 0,
     label     |-> result.sentiment.label]

NextAnalysis ==
    /\ called \in {"analyze_sentiment", "analyze_entry"}
    /\ prev = NoSummary
    /\ prev' = Summary
    /\ input_content' \in PairTexts
    /\ input_blob' \in PairBlobs
    /\ called' = None
    /\ result' = NoResult
    /\ UNCHANGED call_args
    /\ UNCHANGED api_vars
    /\ UNCHANGED reflect_vars
    /\ UNCHANGED side_vars

InitPair == InitNlp(PairTexts, PairBlobs) /\ InitApi /\ InitNoReflection

NextPair == AnalyzeSentiment \/ AnalyzeEntry \/ NextAnalysis

SpecPair == InitPair /\ [][NextPair]_vars

\* ------------------------------------------------------------ HTTP handlers

\* the entries of the store get_store() returns
GlobalEntries ==
    IF _store_instance = NoInstance THEN <<>> ELSE instances[_store_instance]._store

\* POST /entries
CreateEntry ==
    \E raw \in RawTexts, ts \in Timestamps :
        /\ request' = [op |-> "create_entry", content |-> raw, timestamp |-> ts,
                       entry_id |-> EmptyId]
        /\ entry_input' = JournalEntryInput(raw, ts)
        /\ IF ~ValidInput(raw)
           THEN \* rejected by FastAPI before the handler runs
                /\ response' = Response(422, NoBody)
                /\ UNCHANGED << _store_instance, instances, returned, _inst >>
           ELSE \E sentiment_blob \in Blobs, entry_content \in {strip(raw)} :
                \E analysis \in {analyze_entry(entry_content, sentiment_blob)} :
                    IF Len(analysis) # 2
                    THEN \* `sentiment, themes = analyze_entry(...)` raises
                         \* ValueError, which `except Exception` turns into 500
                         /\ response' = Response(500, NoBody)
                         /\ UNCHANGED << _store_instance, instances, returned, _inst >>
                    ELSE LET sentiment == analysis[1]
                             themes == analysis[2]
                             reflected == generate_reflection(_inst, sentiment, themes, None)
                             record == JournalEntryResponse(EmptyId, ts, entry_content,
                                                            sentiment, themes,
                                                            reflected.reflection)
                         IN  /\ _inst' = reflected.state
                             /\ IF ts = None
                                THEN \* JournalEntryResponse(timestamp=None) raises
                                     \* ValidationError, answered with 422
                                     /\ response' = Response(422, NoBody)
                                     /\ UNCHANGED << _store_instance, instances, returned >>
                                ELSE \E store \in {get_store(_store_instance, instances)} :
                                     \E fresh \in Ids \ UsedIds(instances) :
                                     /\ store.created[store.instance]._lock = NoWorker
                                     /\ _store_instance' = store.instance
                                     /\ instances' =
                                          [store.created EXCEPT ![store.instance]._store =
                                              store_entry(@, fresh, record)]
                                     /\ returned' = returned \cup
                                          {[store |-> store.instance, entry_id |-> fresh,
                                            entry_data |-> record]}
                                     /\ response' =
                                          Response(201, [record EXCEPT !.entry_id = fresh])
        /\ UNCHANGED workers
        /\ UNCHANGED nlp_vars
        /\ UNCHANGED side_vars
        /\ UNCHANGED << calls, earlier >>

\* GET /entries/{entry_id}
GetEntry ==
    \E entry_id \in Ids :
    \E store \in {get_store(_store_instance, instances)} :
        /\ store.created[store.instance]._lock = NoWorker
        /\ request' = [op |-> "get_entry", content |-> <<>>, timestamp |-> None,
                       entry_id |-> entry_id]
        /\ _store_instance' = store.instance
        /\ instances' = store.created
        /\ LET entry_data == get_entry(store.created[store.instance]._store, entry_id)
           IN  response' =
                 IF ~entry_data.found
                 THEN Response(404, NoBody)
                 ELSE IF entry_data.data.timestamp = None
                 THEN \* JournalEntryResponse(**entry_data) raises ValidationError,
                      \* which `except Exception` turns into 500
                      Response(500, NoBody)
                 ELSE Response(200, entry_data.data)
        /\ UNCHANGED << workers, returned, entry_input >>
        /\ UNCHANGED nlp_vars
        /\ UNCHANGED side_vars
        /\ UNCHANGED reflect_vars

InitHttp ==
    /\ input_content = <<>>
    /\ input_blob = [polarity |-> 0, subjectivity |-> 0]
    /\ called = None
    /\ call_args = NoArgs
    /\ result = NoResult
    /\ prev = NoSummary
    /\ InitApi
    /\ InitNoReflection

NextHttp == CreateEntry \/ GetEntry

SpecHttp == InitHttp /\ [][NextHttp]_vars


\* ------------------------------------------------------ the reflection composer

\* the mode values a caller may pass: the three modes, None, the empty
\* string and a value that is no mode
ReflectModes == {"low_energy", "anxious", "calm", None, "", "excited"}

Labels == {"positive", "neutral", "negative"}

\* the theme results a caller may pass; "travel" is a theme without a
\* registered phrase
ReflectThemes ==
    { ThemeDetection(<<>>, "low"),
      ThemeDetection(<<"gratitude">>, "low"),
      ThemeDetection(<<"gratitude", "stress">>, "medium"),
      ThemeDetection(<<"stress", "work">>, "high"),
      ThemeDetection(<<"travel", "work">>, "medium") }

\* the arguments of generate_reflection
ReflectArgs ==
    [sentiment : [polarity : {-300, 100}, subjectivity : {0, 500}, label : Labels],
     themes : ReflectThemes,
     mode : ReflectModes]

\* the arguments of the calls that are compared with each other
PairArgs ==
    [sentiment : [polarity : {-300, 100}, subjectivity : {0, 500},
                  label : {"positive", "neutral"}],
     themes : {ThemeDetection(<<"gratitude">>, "medium")},
     mode : {"anxious", None}]

\* the seeds other code gives the generator
OtherSeeds == {0, 300}

\* the generator as the import of module random left it or as other code
\* left it: seeded with a value the caller does not know
InitReflection ==
    /\ _inst \in {RandomState(a, 0) : a \in {0, 100, 300, 500}}
    /\ calls = [c \in Callers |-> NoCall]
    /\ earlier = NoCall

Returned(a, reflection) ==
    [pc |-> "done", sentiment |-> a.sentiment, themes |-> a.themes, mode |-> a.mode,
     base_acknowledgment |-> reflection.message[1], reflection |-> reflection]

\* one call of generate_reflection, from its first statement to its return
GenerateReflectionWith(arguments) ==
    /\ \E a \in arguments :
       \E run \in {generate_reflection(_inst, a.sentiment, a.themes, a.mode)} :
          /\ calls' = [calls EXCEPT !["caller1"] = Returned(a, run.reflection)]
          /\ _inst' = run.state
    /\ UNCHANGED earlier
    /\ UNCHANGED nlp_vars
    /\ UNCHANGED side_vars
    /\ UNCHANGED api_vars

GenerateReflection == GenerateReflectionWith(ReflectArgs)

GenerateReflectionPair == GenerateReflectionWith(PairArgs)

\* the call that returned last is set aside for comparison with a later one
Remember ==
    /\ earlier = NoCall
    /\ calls["caller1"].pc = "done"
    /\ earlier' = calls["caller1"]
    /\ calls' = [calls EXCEPT !["caller1"] = NoCall]
    /\ UNCHANGED _inst
    /\ UNCHANGED nlp_vars
    /\ UNCHANGED side_vars
    /\ UNCHANGED api_vars

\* other code calls random.seed
RandomSeed ==
    /\ \E a \in OtherSeeds : _inst' = random_seed(_inst, a)
    /\ UNCHANGED << calls, earlier >>
    /\ UNCHANGED nlp_vars
    /\ UNCHANGED side_vars
    /\ UNCHANGED api_vars

\* other code draws from the generator
RandomDraw ==
    /\ _inst.drawn < MaxDraws
    /\ _inst' = random_getrandbits(_inst).state
    /\ UNCHANGED << calls, earlier >>
    /\ UNCHANGED nlp_vars
    /\ UNCHANGED side_vars
    /\ UNCHANGED api_vars

InitReflect == InitNlp({<<>>}, {[polarity |-> 0, subjectivity |-> 0]}) /\ InitApi /\ InitReflection

NextReflect == GenerateReflection \/ RandomSeed \/ RandomDraw

\* calls of generate_reflection one after the other, with other uses of the
\* generator between them
SpecReflect == InitReflect /\ [][NextReflect]_vars

NextReflectPair == GenerateReflectionPair \/ Remember \/ RandomSeed \/ RandomDraw

SpecReflectPair == InitReflect /\ [][NextReflectPair]_vars

\* Calls of generate_reflection in several threads: a thread can be
\* suspended between any two statements that use the generator.

\* the call is entered
Call(c) ==
    /\ calls[c].pc \in {"idle", "done"}
    /\ \E a \in PairArgs :
        calls' = [calls EXCEPT ![c] =
                    [NoCall EXCEPT !.pc = "seed", !.sentiment = a.sentiment,
                                   !.themes = a.themes, !.mode = a.mode]]
    /\ UNCHANGED << _inst, earlier >>
    /\ UNCHANGED nlp_vars
    /\ UNCHANGED side_vars
    /\ UNCHANGED api_vars

\* random.seed(seed_value)
Seed(c) ==
    /\ calls[c].pc = "seed"
    /\ _inst' = random_seed(_inst, seed_value(calls[c].sentiment))
    /\ calls' = [calls EXCEPT ![c].pc = "choice"]
    /\ UNCHANGED earlier
    /\ UNCHANGED nlp_vars
    /\ UNCHANGED side_vars
    /\ UNCHANGED api_vars

\* base_acknowledgment = random.choice(acknowledgment_options), the message,
\* and the decision whether a prompt is attached
Choice(c) ==
    /\ calls[c].pc = "choice"
    /\ \E drawn \in {random_choice(_inst, acknowledgment_options(calls[c].sentiment,
                                                                calls[c].mode))} :
        /\ _inst' = drawn.state
        /\ calls' =
            IF prompt_options(calls[c].sentiment, calls[c].themes, calls[c].mode) = <<>>
            THEN [calls EXCEPT
                    ![c].pc = "done",
                    ![c].base_acknowledgment = drawn.value,
                    ![c].reflection =
                        EmpathyReflection(<<drawn.value, theme_context(calls[c].themes)>>,
                                          None)]
            ELSE [calls EXCEPT ![c].pc = "prompt_seed",
                               ![c].base_acknowledgment = drawn.value]
    /\ UNCHANGED earlier
    /\ UNCHANGED nlp_vars
    /\ UNCHANGED side_vars
    /\ UNCHANGED api_vars

\* random.seed(prompt_seed)
PromptSeed(c) ==
    /\ calls[c].pc = "prompt_seed"
    /\ _inst' = random_seed(_inst, prompt_seed(calls[c].sentiment))
    /\ calls' = [calls EXCEPT ![c].pc = "prompt_choice"]
    /\ UNCHANGED earlier
    /\ UNCHANGED nlp_vars
    /\ UNCHANGED side_vars
    /\ UNCHANGED api_vars

\* prompt = random.choice(...) and the return
PromptChoice(c) ==
    /\ calls[c].pc = "prompt_choice"
    /\ \E drawn \in {random_choice(_inst, prompt_options(calls[c].sentiment,
                                                        calls[c].themes, calls[c].mode))} :
        /\ _inst' = drawn.state
        /\ calls' = [calls EXCEPT
                        ![c].pc = "done",
                        ![c].reflection =
                            EmpathyReflection(<<calls[c].base_acknowledgment,
                                                theme_context(calls[c].themes)>>,
                                              drawn.value)]
    /\ UNCHANGED earlier
    /\ UNCHANGED nlp_vars
    /\ UNCHANGED side_vars
    /\ UNCHANGED api_vars

CallAny == \E c \in Callers : Call(c)

SeedAny == \E c \in Callers : Seed(c)

ChoiceAny == \E c \in Callers : Choice(c)

PromptSeedAny == \E c \in Callers : PromptSeed(c)

PromptChoiceAny == \E c \in Callers : PromptChoice(c)

NextReflectThreads == CallAny \/ SeedAny \/ ChoiceAny \/ PromptSeedAny \/ PromptChoiceAny

SpecReflectThreads == InitReflect /\ [][NextReflectThreads]_vars

\* -------------------------------------------------------------- input model

\* JournalEntryInput(content=raw, timestamp=ts), as FastAPI builds it from the
\* body of POST /entries before create_entry runs
BuildEntryInput ==
    /\ request = NoRequest
    /\ \E raw \in RawTexts \cup LongTexts, ts \in Timestamps :
        /\ request' = [op |-> "create_entry", content |-> raw, timestamp |-> ts,
                       entry_id |-> EmptyId]
        /\ entry_input' = JournalEntryInput(raw, ts)
        /\ response' = IF ValidInput(raw) THEN response ELSE Response(422, NoBody)
    /\ UNCHANGED << _store_instance, instances, workers, returned >>
    /\ UNCHANGED nlp_vars
    /\ UNCHANGED side_vars
    /\ UNCHANGED reflect_vars

NextInput == BuildEntryInput

SpecInput == InitHttp /\ [][NextInput]_vars

\* --------------------------------------------------------------- the store

\* a dictionary as response.dict() gives it, with the text c and timestamp ts
SampleEntry(c, ts) ==
    JournalEntryResponse(EmptyId, ts, c, SentimentAnalysis(0, 0, "neutral"),
                         ThemeDetection(<<>>, "low"),
                         EmpathyReflection(<<"ack.neutral.0", None>>, None))

\* the dictionaries callers of store_entry pass; the second one has no
\* timestamp, so JournalEntryResponse(**entry_data) rejects it
EntryData ==
    { SampleEntry(<<"h","a","r","d">>, "2026-01-30T22:42:00"),
      SampleEntry(<<"m","i","s","s">>, None) }

\* get_store().store_entry(entry_data), run without interruption, with the
\* identifier uuid4 gives taken from fresh_ids
StoreEntryWith(fresh_ids) ==
    /\ \E entry_data \in EntryData :
       \E store \in {get_store(_store_instance, instances)} :
       \E fresh \in fresh_ids :
          /\ store.created[store.instance]._lock = NoWorker
          /\ _store_instance' = store.instance
          /\ instances' = [store.created EXCEPT ![store.instance]._store =
                              store_entry(@, fresh, entry_data)]
          /\ returned' = returned \cup {[store |-> store.instance, entry_id |-> fresh,
                                         entry_data |-> entry_data]}
    /\ UNCHANGED << workers, request, response, entry_input >>
    /\ UNCHANGED nlp_vars
    /\ UNCHANGED side_vars
    /\ UNCHANGED reflect_vars

\* any identifier not given out yet
StoreEntry == StoreEntryWith(Ids \ UsedIds(instances))

NextRetrieve == StoreEntry \/ GetEntry

\* the store filled by calls of store_entry, and GET /entries/{entry_id}
SpecRetrieve == InitHttp /\ [][NextRetrieve]_vars

\* Threads that call get_store and then store_entry, get_entry and
\* get_entry_count on the store they got.  pc names the method and the
\* place in it: "_lock" before `with self._lock`, "_body" inside it,
\* "_unlock" at its end.

\* the identifiers uuid4 has given out
IssuedIds ==
    UsedIds(instances) \cup
        {workers[w].entry_id : w \in {x \in Workers : workers[x].pc # "idle"}}

OtherVarsUnchanged ==
    /\ UNCHANGED << request, response, entry_input >>
    /\ UNCHANGED nlp_vars
    /\ UNCHANGED side_vars
    /\ UNCHANGED reflect_vars

\* get_store: `if _store_instance is None`
GetStoreTest(w) ==
    /\ workers[w].pc = "idle"
    /\ workers' = [workers EXCEPT ![w].pc =
                      IF _store_instance = NoInstance
                      THEN "get_store_create" ELSE "get_store_return"]
    /\ UNCHANGED << _store_instance, instances, returned >>
    /\ OtherVarsUnchanged

\* get_store: `_store_instance = InMemoryStore()`
GetStoreCreate(w) ==
    /\ workers[w].pc = "get_store_create"
    /\ instances' = Append(instances, InMemoryStore)
    /\ _store_instance' = Len(instances) + 1
    /\ workers' = [workers EXCEPT ![w].pc = "get_store_return"]
    /\ UNCHANGED returned
    /\ OtherVarsUnchanged

\* get_store: `return _store_instance`
GetStoreReturn(w) ==
    /\ workers[w].pc = "get_store_return"
    /\ workers' = [workers EXCEPT ![w].pc = "idle", ![w].store = _store_instance]
    /\ UNCHANGED << _store_instance, instances, returned >>
    /\ OtherVarsUnchanged

\* `with self._lock:` is entered
Acquire(w, method) ==
    /\ workers[w].pc = method \o "_lock"
    /\ instances[workers[w].store]._lock = NoWorker
    /\ instances' = [instances EXCEPT ![workers[w].store]._lock = w]
    /\ workers' = [workers EXCEPT ![w].pc = method \o "_body"]
    /\ UNCHANGED << _store_instance, returned >>
    /\ OtherVarsUnchanged

\* `with self._lock:` is left and the method returns
Release(w, method) ==
    /\ workers[w].pc = method \o "_unlock"
    /\ instances' = [instances EXCEPT ![workers[w].store]._lock = NoWorker]
    /\ workers' = [workers EXCEPT ![w] = [NoWork EXCEPT !.store = workers[w].store]]
    /\ returned' =
         IF method = "store_entry"
         THEN returned \cup {[store |-> workers[w].store,
                              entry_id |-> workers[w].entry_id,
                              entry_data |-> workers[w].entry_data]}
         ELSE returned
    /\ UNCHANGED _store_instance
    /\ OtherVarsUnchanged

\* store_entry: `entry_id = str(uuid.uuid4())`.  uuid4 gives an identifier
\* it never gave before; which one makes no difference to the store, so the
\* threads take the unused identifiers in order.
StoreEntryUuid(w) ==
    /\ workers[w].pc = "idle"
    /\ workers[w].store # NoInstance
    /\ \E entry_data \in EntryData, fresh \in Ids \ IssuedIds :
        /\ \A other \in Ids \ IssuedIds : fresh <= other
        /\ workers' = [workers EXCEPT ![w].pc = "store_entry_lock",
                                   ![w].entry_id = fresh,
                                   ![w].entry_data = entry_data]
    /\ UNCHANGED << _store_instance, instances, returned >>
    /\ OtherVarsUnchanged

StoreEntryAcquire(w) == Acquire(w, "store_entry")

\* store_entry: `self._store[entry_id] = entry_data`
StoreEntryAssign(w) ==
    /\ workers[w].pc = "store_entry_body"
    /\ instances' = [instances EXCEPT ![workers[w].store]._store =
                        store_entry(@, workers[w].entry_id, workers[w].entry_data)]
    /\ workers' = [workers EXCEPT ![w].pc = "store_entry_unlock"]
    /\ UNCHANGED << _store_instance, returned >>
    /\ OtherVarsUnchanged

StoreEntryReturn(w) == Release(w, "store_entry")

\* get_entry(entry_id) is called
GetEntryEnter(w) ==
    /\ workers[w].pc = "idle"
    /\ workers[w].store # NoInstance
    /\ \E entry_id \in Ids :
        workers' = [workers EXCEPT ![w].pc = "get_entry_lock", ![w].entry_id = entry_id]
    /\ UNCHANGED << _store_instance, instances, returned >>
    /\ OtherVarsUnchanged

GetEntryAcquire(w) == Acquire(w, "get_entry")

\* get_entry: `self._store.get(entry_id)`
GetEntryRead(w) ==
    /\ workers[w].pc = "get_entry_body"
    /\ workers' = [workers EXCEPT
                     ![w].pc = "get_entry_unlock",
                     ![w].result =
                        [op |-> "get_entry", entry_id |-> workers[w].entry_id,
                         value |-> get_entry(instances[workers[w].store]._store,
                                             workers[w].entry_id),
                         count |-> 0]]
    /\ UNCHANGED << _store_instance, instances, returned >>
    /\ OtherVarsUnchanged

GetEntryReturn(w) == Release(w, "get_entry")

\* get_entry_count() is called
GetEntryCountEnter(w) ==
    /\ workers[w].pc = "idle"
    /\ workers[w].store # NoInstance
    /\ workers' = [workers EXCEPT ![w].pc = "get_entry_count_lock"]
    /\ UNCHANGED << _store_instance, instances, returned >>
    /\ OtherVarsUnchanged

GetEntryCountAcquire(w) == Acquire(w, "get_entry_count")

\* get_entry_count: `len(self._store)`
GetEntryCountRead(w) ==
    /\ workers[w].pc = "get_entry_count_body"
    /\ workers' = [workers EXCEPT
                     ![w].pc = "get_entry_count_unlock",
                     ![w].result =
                        [op |-> "get_entry_count", entry_id |-> EmptyId, value |-> NotFound,
                         count |-> get_entry_count(instances[workers[w].store]._store)]]
    /\ UNCHANGED << _store_instance, instances, returned >>
    /\ OtherVarsUnchanged

GetEntryCountReturn(w) == Release(w, "get_entry_count")

GetStoreStep ==
    \E w \in Workers : GetStoreTest(w) \/ GetStoreCreate(w) \/ GetStoreReturn(w)

StoreEntryStep ==
    \E w \in Workers :
        StoreEntryUuid(w) \/ StoreEntryAcquire(w) \/ StoreEntryAssign(w) \/ StoreEntryReturn(w)

GetEntryStep ==
    \E w \in Workers :
        GetEntryEnter(w) \/ GetEntryAcquire(w) \/ GetEntryRead(w) \/ GetEntryReturn(w)

GetEntryCountStep ==
    \E w \in Workers :
        \/ GetEntryCountEnter(w) \/ GetEntryCountAcquire(w)
        \/ GetEntryCountRead(w) \/ GetEntryCountReturn(w)

NextStoreThreads == GetStoreStep \/ StoreEntryStep \/ GetEntryStep \/ GetEntryCountStep

SpecStoreThreads == InitHttp /\ [][NextStoreThreads]_vars

\* ------------------------------------------------ the recent entries, called

\* get_store().get_recent_entries(limit), run without interruption; the
\* call is remembered with the values the store held when it was made
GetRecentEntries ==
    /\ \E limit \in (0..MaxLimit) \cup {DEFAULT_LIMIT} :
       \E store \in {get_store(_store_instance, instances)} :
          /\ store.created[store.instance]._lock = NoWorker
          /\ _store_instance' = store.instance
          /\ instances' = store.created
          /\ recent_call' =
                [called |-> TRUE, limit |-> limit,
                 stored |-> StoreValues(store.created[store.instance]._store),
                 entries |-> get_recent_entries(store.created[store.instance]._store, limit)]
    /\ UNCHANGED << workers, returned, request, response, entry_input >>
    /\ UNCHANGED nlp_vars
    /\ UNCHANGED << refine_call, insights_call >>
    /\ UNCHANGED reflect_vars

NextRecent == StoreEntry \/ GetRecentEntries

\* the store filled by calls of store_entry, and calls of get_recent_entries
SpecRecent == InitHttp /\ [][NextRecent]_vars

\* ------------------------------------------------------ the insights, called

\* one call of generate_insights; the function keeps no state, so one call
\* in a behaviour shows all it can do
GenerateInsights ==
    /\ ~insights_call.called
    /\ \E entry_count \in 0..MaxCount :
       \E recent_entries \in UNION {[1..n -> InsightEntries] : n \in 0..MaxRecent} :
       \E current_mode \in {"low_energy", "anxious", "calm"} :
          insights_call' =
             [called |-> TRUE, entry_count |-> entry_count,
              recent_entries |-> recent_entries, current_mode |-> current_mode,
              insights |-> generate_insights(entry_count, recent_entries, current_mode)]
    /\ UNCHANGED << recent_call, refine_call >>
    /\ UNCHANGED nlp_vars
    /\ UNCHANGED api_vars
    /\ UNCHANGED reflect_vars

NextInsights == GenerateInsights

\* calls of generate_insights
SpecInsights == InitHttp /\ [][NextInsights]_vars

\* -------------------------------------------- requests on a store in use

\* store_entry on the empty store, which leaves it as one accepted submit
\* would; which of the unused identifiers the entry gets makes no difference
\* to the requests, so it gets the least one
StoreFirstEntry ==
    /\ GlobalEntries = <<>>
    /\ StoreEntryWith({fresh \in Ids \ UsedIds(instances) :
                          \A other \in Ids \ UsedIds(instances) : fresh <= other})

NextRequests == StoreFirstEntry \/ CreateEntry \/ GetEntry

\* POST /entries and GET /entries/{entry_id} on a store that may hold an entry
SpecRequests == InitHttp /\ [][NextRequests]_vars

\* --------------------------------------------------- the refinement, called

\* one call of refine_reflection_with_llm; the function keeps no state, so
\* one call in a behaviour shows all it can do
RefineReflection ==
    /\ ~refine_call.called
    /\ \E base_reflection \in BaseReflections :
       \E OPENAI_API_KEY \in {"", "sk-test"} :
       \E USE_OPENAI_REFINEMENT \in BOOLEAN :
       \E completion \in Completions :
          refine_call' =
             [called |-> TRUE, base_reflection |-> base_reflection,
              OPENAI_API_KEY |-> OPENAI_API_KEY,
              USE_OPENAI_REFINEMENT |-> USE_OPENAI_REFINEMENT,
              completion |-> completion,
              outcome |-> refine_reflection_with_llm(base_reflection, OPENAI_API_KEY,
                                                     USE_OPENAI_REFINEMENT, completion)]
    /\ UNCHANGED << recent_call, insights_call >>
    /\ UNCHANGED nlp_vars
    /\ UNCHANGED api_vars
    /\ UNCHANGED reflect_vars

NextRefine == RefineReflection

\* calls of refine_reflection_with_llm
SpecRefine == InitHttp /\ [][NextRefine]_vars
\* ------------------------------------------------------------------ claims

Modes == {"low_energy", "anxious", "calm"}

\* a submit whose content passes validation and whose timestamp is usable
ValidSubmit ==
    /\ request.op = "create_entry"
    /\ ValidInput(request.content)
    /\ request.timestamp # None

\* C1: every submit with valid content completes with a record that carries a
\* freshly generated identifier, the content, the sentiment, the themes and
\* the reflection; it never ends in the internal-error outcome (500).
C1_ValidSubmitReturnsRecord ==
    ValidSubmit =>
        /\ response.status # 500
        /\ response.status = 201
        /\ response.body.entry_id \in Ids
        /\ response.body.content = strip(request.content)
        /\ response.body.sentiment.label \in {"positive", "neutral", "negative"}
        /\ response.body.themes.confidence \in {"low", "medium", "high"}
        /\ response.body.reflection.message # <<None, None>>

\* C2: round trip: after a submit with valid content, the store holds, under
\* the identifier of the returned record, a record equal to it in every field
\* (entry_id, timestamp, content, sentiment, themes, reflection), which is
\* what retrieving by that identifier answers.
C2_SubmitThenRetrieveRoundTrip ==
    ValidSubmit =>
        /\ response.body.entry_id \in StoreKeys(GlobalEntries)
        /\ get_entry(GlobalEntries, response.body.entry_id) = Found(response.body)

\* the mode the precedence rules of C3 give
C3_ModeByRules(c, sentiment, themes, burden) ==
    LET anxious ==
            \/ burden
            \/ "stress" \in Range(themes.themes)
            \/ "loss" \in Range(themes.themes)
            \/ Scans[c].rumination
            \/ Scans[c].explicit_anxiety
            \/ (Scans[c].pressure /\ (Scans[c].rumination \/ Scans[c].explicit_anxiety))
        low_energy ==
            /\ Scans[c].low_energy
            /\ \/ (sentiment.polarity <= 300 /\ sentiment.subjectivity < 500)
               \/ (-100 <= sentiment.polarity /\ sentiment.polarity <= 200)
    IN  IF anxious THEN "anxious"
        ELSE IF low_energy THEN "low_energy"
        ELSE "calm"

C4_AnxietyBeatsLowEnergy ==
    ( /\ called \in {"detect_emotional_mode", "analyze_entry"}
      /\ Scans[input_content].low_energy
      /\ Scans[input_content].explicit_anxiety )
    => result.mode = "anxious"

\* the explicit-anxiety keyword is the only anxiety signal of the call, and
\* the numbers alone would have made it low_energy
C4_Witness ==
    /\ called = "detect_emotional_mode"
    /\ Scans[input_content].low_energy
    /\ Scans[input_content].explicit_anxiety
    /\ ~Scans[input_content].rumination
    /\ ~call_args.has_emotional_burden
    /\ call_args.themes.themes = <<>>
    /\ result.sentiment.polarity = 0
    /\ result.mode = "anxious"

C6_BurdenCapsPositive ==
    ( /\ called = "analyze_entry"
      /\ ~IsBlank(input_content)
      /\ Scans[input_content].burden
      /\ ~Scans[input_content].numbness
      /\ input_blob.polarity > 100 )
    => /\ result.sentiment.label = "neutral"
       /\ result.sentiment.polarity = input_blob.polarity
       /\ result.mode = "anxious"

C6_Witness ==
    /\ called = "analyze_entry"
    /\ Scans[input_content].burden
    /\ ~Scans[input_content].numbness
    /\ ~Scans[input_content].explicit_anxiety
    /\ input_blob.polarity = 800
    /\ result.sentiment.label = "neutral"

\* the texts that contain a numbness phrase, whatever the case of the letters
C7_ContainsNumbnessPhrase ==
    [t \in Texts |->
        \E k \in DOMAIN NUMBNESS_KEYWORDS : IsSubstring(NUMBNESS_KEYWORDS[k], lower(t))]
    @@ <<>>

\* C7: for a non-empty text containing a numbness phrase (substring, any
\* case), analyze_sentiment returns polarity 0.0 and label neutral with the
\* computed subjectivity, whatever the base polarity and whether or not
\* burden keywords are present.
C7_NumbnessForcesNeutral ==
    ( /\ called = "analyze_sentiment"
      /\ ~IsBlank(input_content)
      /\ C7_ContainsNumbnessPhrase[input_content] )
    => result.sentiment = SentimentAnalysis(0, input_blob.subjectivity, "neutral")

\* numbness found inside a longer word, next to a burden keyword, on a
\* positive base polarity
C7_Witness ==
    /\ called = "analyze_sentiment"
    /\ C7_ContainsNumbnessPhrase[input_content]
    /\ ~Scans[input_content].low_energy
    /\ Scans[input_content].burden
    /\ input_blob.polarity > 100
    /\ input_blob.subjectivity = 499
    /\ result.sentiment.polarity = 0

\* C8: in every result of analyze_entry, mode low_energy implies a label
\* other than positive and a polarity of at most 0; and when the mode is
\* low_energy and the polarity analyze_sentiment returned was above 0, the
\* sentiment returned is polarity -0.1, label neutral, subjectivity unchanged.
C8_LowEnergyNeverPositive ==
    ( called = "analyze_entry" /\ result.mode = "low_energy" )
    => /\ result.sentiment.label # "positive"
       /\ result.sentiment.polarity <= 0
       /\ LET scored == analyze_sentiment(input_content, input_blob)
          IN  scored.polarity > 0 =>
                  result.sentiment = SentimentAnalysis(-100, scored.subjectivity, "neutral")

\* a low-energy text the scorer alone labels positive
C8_Witness ==
    /\ called = "analyze_entry"
    /\ result.mode = "low_energy"
    /\ input_blob.polarity = 300
    /\ ~Scans[input_content].numbness
    /\ result.sentiment = SentimentAnalysis(-100, input_blob.subjectivity, "neutral")

\* C9: in every sentiment analyze_sentiment and analyze_entry return, label
\* positive implies polarity above 0.1 and label negative implies polarity
\* below -0.1; and two analyses with the same base polarity and the same
\* burden, numbness and low-energy-correction flags carry the same label.
C9_LabelDetermined ==
    called \in {"analyze_sentiment", "analyze_entry"} =>
        /\ result.sentiment.label = "positive" =>
               result.sentiment.polarity > SENTIMENT_POSITIVE_THRESHOLD
        /\ result.sentiment.label = "negative" =>
               result.sentiment.polarity < SENTIMENT_NEGATIVE_THRESHOLD
        /\ ( /\ prev # NoSummary
             /\ prev.base = Summary.base
             /\ prev.burden = Summary.burden
             /\ prev.numbness = Summary.numbness
             /\ prev.corrected = Summary.corrected )
           => prev.label = Summary.label

\* two analyses, one by each function, that agree on the base polarity and
\* the flags, the second one corrected for low energy
C9_Witness ==
    /\ called = "analyze_entry"
    /\ prev.called = "analyze_entry"
    /\ prev.base = Summary.base
    /\ prev.burden = Summary.burden
    /\ prev.numbness = Summary.numbness
    /\ prev.corrected = Summary.corrected
    /\ Summary.corrected
    /\ Summary.base > 100

\* a keyword occurs in a text as a whole word: no letter, digit or underscore
\* next to the occurrence
C10_OccursAsWord(keyword, text) ==
    \E i \in 1..(Len(text) - Len(keyword) + 1) :
        LET last == i + Len(keyword) - 1
        IN  /\ SubSeq(text, i, last) = keyword
            /\ i = 1 \/ ~IsWordChar(text[i - 1])
            /\ last = Len(text) \/ ~IsWordChar(text[last + 1])

\* per text and theme, the number of distinct keywords of the theme that
\* occur at least once as a whole word, case-insensitively
C10_KeywordCount ==
    [t \in Texts |->
        [th \in ThemeNames |->
            Cardinality({THEME_KEYWORDS[th][k] : k \in
                {j \in DOMAIN THEME_KEYWORDS[th] :
                    C10_OccursAsWord(THEME_KEYWORDS[th][j], lower(t))}})] @@ <<>>]
    @@ <<>>

C11_ScenarioThemes ==
    (called = "detect_themes" /\ input_content = GratefulScenario) =>
        /\ "gratitude" \in Range(result.themes.themes)
        /\ "relationships" \in Range(result.themes.themes)
        /\ result.themes.confidence = "medium"

\* what the code answers for that text: both themes, each matched by one
\* keyword ("friends" is not the word "friend"), hence confidence low
C11_ScenarioThemesLow ==
    (called = "detect_themes" /\ input_content = GratefulScenario) =>
        /\ result.themes.themes = <<"gratitude", "relationships">>
        /\ result.themes.confidence = "low"

\* the arguments of a call of generate_reflection
ArgsOf(call) == [sentiment |-> call.sentiment, themes |-> call.themes, mode |-> call.mode]

\* ---------------------------------------------------------------------------
\* C12  Any two calls of generate_reflection with identical mode, polarity,
\*      subjectivity, themes, confidence and label return identical message
\*      and prompt, whatever calls of generate_reflection or other uses of
\*      the random generator happened before or between them.
C12_SameArgumentsSameReflection ==
    ( /\ earlier.pc = "done"
      /\ calls["caller1"].pc = "done"
      /\ ArgsOf(earlier) = ArgsOf(calls["caller1"]) )
    => calls["caller1"].reflection = earlier.reflection

\* two calls with the same arguments, each with a prompt, the later one made
\* after the generator was left in another state than the earlier one left it
C12_Witness ==
    /\ earlier.pc = "done"
    /\ calls["caller1"].pc = "done"
    /\ ArgsOf(earlier) = ArgsOf(calls["caller1"])
    /\ earlier.reflection.prompt # None
    /\ earlier.mode = None

\* ---------------------------------------------------------------------------
\* C13  When several invocations of generate_reflection run in parallel and
\*      interleave between seeding the random generator and drawing from it,
\*      each invocation still returns exactly the message and prompt it
\*      returns when run alone.
C13_ParallelSameAsAlone ==
    \A c \in Callers :
        calls[c].pc = "done" =>
            calls[c].reflection =
                generate_reflection(RandomState(0, 0), calls[c].sentiment,
                                    calls[c].themes, calls[c].mode).reflection

\* ---------------------------------------------------------------------------
\* C14  generate_reflection attaches a prompt always when mode is low_energy
\*      or anxious; when mode is calm, absent or unrecognized it attaches a
\*      prompt if and only if the label is neutral or negative or the theme
\*      confidence is low; otherwise the prompt is absent.  The prompt comes
\*      from the mode's prompt pool when the mode is recognized and from the
\*      generic pool otherwise.
C14_PromptWanted(call) ==
    \/ call.mode \in {"low_energy", "anxious"}
    \/ call.sentiment.label \in {"neutral", "negative"}
    \/ call.themes.confidence = "low"

C14_PromptPool(call) ==
    IF call.mode \in {"low_energy", "anxious", "calm"}
    THEN Range(MODE_ADAPTIVE_PROMPTS[call.mode])
    ELSE Range(REFLECTIVE_PROMPTS)

C14_PromptRule ==
    LET call == calls["caller1"]
    IN  call.pc = "done" =>
            IF C14_PromptWanted(call)
            THEN call.reflection.prompt \in C14_PromptPool(call)
            ELSE call.reflection.prompt = None

\* a calm call with a positive label and medium confidence: no prompt
C14_Witness ==
    /\ calls["caller1"].pc = "done"
    /\ calls["caller1"].mode = "calm"
    /\ calls["caller1"].sentiment.label = "positive"
    /\ calls["caller1"].themes.confidence = "medium"
    /\ calls["caller1"].reflection.prompt = None

\* ---------------------------------------------------------------------------
\* C15  The acknowledgment comes from the mode-specific pool when the mode is
\*      low_energy, anxious or calm, and from the pool of the sentiment label
\*      otherwise; a call with an unrecognized mode value (the empty string
\*      included) returns the same message and prompt as the same call with
\*      the mode absent.
C15_AcknowledgmentPool ==
    LET call == calls["caller1"]
    IN  call.pc = "done" =>
            IF call.mode \in {"low_energy", "anxious", "calm"}
            THEN call.reflection.message[1] \in Range(MODE_ADAPTIVE_TEMPLATES[call.mode])
            ELSE /\ call.reflection.message[1] \in
                        Range(ACKNOWLEDGMENT_TEMPLATES[call.sentiment.label])
                 /\ call.reflection =
                        generate_reflection(RandomState(0, 0), call.sentiment,
                                            call.themes, None).reflection

\* a call with the empty string as mode
C15_Witness ==
    /\ calls["caller1"].pc = "done"
    /\ calls["caller1"].mode = ""
    /\ calls["caller1"].reflection.message[1] \in Range(ACKNOWLEDGMENT_TEMPLATES.negative)
    /\ calls["caller1"].reflection.prompt \in Range(REFLECTIVE_PROMPTS)

\* ---------------------------------------------------------------------------
\* C16  The theme clause is appended to the acknowledgment if and only if the
\*      theme list is non-empty, the confidence is medium or high and the
\*      first theme of the list has a registered phrase; the clause is built
\*      from the first theme, and otherwise the message is the bare
\*      acknowledgment.
C16_ThemeClause ==
    LET call == calls["caller1"]
        listed == call.themes.themes
    IN  call.pc = "done" =>
            IF /\ listed # <<>>
               /\ call.themes.confidence \in {"medium", "high"}
               /\ listed[1] \in DOMAIN THEME_ADDITIONS
            THEN call.reflection.message[2] = THEME_ADDITIONS[listed[1]]
            ELSE call.reflection.message[2] = None

\* a first theme without a registered phrase followed by one that has a
\* phrase: the message is the bare acknowledgment
C16_Witness ==
    /\ calls["caller1"].pc = "done"
    /\ calls["caller1"].themes = ThemeDetection(<<"travel", "work">>, "medium")
    /\ calls["caller1"].reflection.message[2] = None

\* ---------------------------------------------------------------------------
\* C17  Submit accepts every text whose length after trimming surrounding
\*      whitespace is between 1 and 5000 characters and rejects every text
\*      that is empty or longer than 5000 characters after trimming:
\*      acceptance depends on the trimmed length only, and a rejected text
\*      is not passed on.
C17_AcceptedByTrimmedLength ==
    request.op = "create_entry" =>
        LET trimmed == Len(strip(request.content))
        IN  IF 1 <= trimmed /\ trimmed <= 5000
            THEN /\ entry_input.valid
                 /\ entry_input.content = strip(request.content)
            ELSE /\ ~entry_input.valid
                 /\ response.status = 422

\* what the code does: the limits apply to the text as sent, and a text of
\* whitespace only is rejected
C17_AcceptedByRawLength ==
    request.op = "create_entry" =>
        (entry_input.valid <=>
            /\ 1 <= Len(request.content) /\ Len(request.content) <= 5000
            /\ strip(request.content) # <<>>)

\* ---------------------------------------------------------------------------
\* C18  Retrieving with an identifier under which nothing is stored yields
\*      the not-found outcome (404) in every state of the store, never the
\*      validation-failure or internal-error outcome, and leaves the store
\*      unchanged.
C18_UnknownIdNotFound ==
    [][ (GetEntry /\ request'.entry_id \notin StoreKeys(GlobalEntries)) =>
            /\ response'.status = 404
            /\ response'.status \notin {422, 500}
            /\ GlobalEntries' = GlobalEntries ]_vars

\* a store that holds entries, one of them unusable as a record, answers 404
\* for an identifier that is not among its keys
C18_Witness ==
    /\ request.op = "get_entry"
    /\ response.status = 404
    /\ request.entry_id \notin StoreKeys(GlobalEntries)
    /\ Len(GlobalEntries) >= 2
    /\ \E i \in DOMAIN GlobalEntries : GlobalEntries[i].data.timestamp = None

\* ---------------------------------------------------------------------------
\* C19  Under any interleaving of concurrent store_entry, get_entry and
\*      get_entry_count calls on one store no entry is lost or overwritten:
\*      once K store_entry calls have returned, get_entry_count is K and
\*      every returned identifier retrieves exactly the data stored under it.
C19_ReturnedOn(i) == {r \in returned : r.store = i}

C20_SingleInstance ==
    /\ Len(instances) <= 1
    /\ \A w \in Workers, v \in Workers :
          (workers[w].store # NoInstance /\ workers[v].store # NoInstance)
          => workers[w].store = workers[v].store
    /\ \A r \in returned, w \in Workers :
          workers[w].store # NoInstance =>
              get_entry(instances[workers[w].store]._store, r.entry_id)
                  = Found(r.entry_data)

\* ------------------------------------------------------- the recent entries

C22_MostRecentFirst ==
    (recent_call.called /\ recent_call.entries # <<>>) =>
        recent_call.entries[1] = recent_call.stored[Len(recent_call.stored)]

\* C26: get_recent_entries returns at most limit entries, for every
\* limit from 0 on
C26_AtMostLimit ==
    (recent_call.called /\ recent_call.limit >= 0) =>
        Len(recent_call.entries) <= recent_call.limit

\* --------------------------------------------------------------- blank text

\* C24: for text that is empty or only whitespace, analyze_sentiment returns
\* polarity 0, subjectivity 0 and the label neutral whatever the lexical
\* scorer would give, detect_themes returns no theme with confidence low, and
\* analyze_entry returns these two and the mode calm
C24_BlankText ==
    IsBlank(input_content) =>
        /\ called \in {"analyze_sentiment", "analyze_entry"} =>
              result.sentiment = SentimentAnalysis(0, 0, "neutral")
        /\ called \in {"detect_themes", "analyze_entry"} =>
              result.themes = ThemeDetection(<<>>, "low")
        /\ called = "analyze_entry" => result.mode = "calm"

\* analyze_entry has run on text of whitespace only for which the lexical
\* scorer would give a polarity above the positive threshold
C24_Witness ==
    /\ input_content # <<>>
    /\ IsBlank(input_content)
    /\ input_blob.polarity > SENTIMENT_POSITIVE_THRESHOLD
    /\ input_blob.subjectivity > 0
    /\ called = "analyze_entry"
    /\ result.mode = "calm"

\* analyze_sentiment and detect_themes have run on the empty text
C24_WitnessEmpty ==
    /\ input_content = <<>>
    /\ input_blob.polarity # 0
    /\ called \in {"analyze_sentiment", "detect_themes"}

\* ------------------------------------------------- the reflection of a submit

\* C25: the reflection in the record a valid submit answers with is
\* generate_reflection(sentiment, themes, mode) for the sentiment, themes and
\* mode analyze_entry returned for the text
C25_ReflectionFromClassifiedMode ==
    ValidSubmit =>
        \E blob \in Blobs :
        \E analysis \in {analyze_entry(strip(request.content), blob)} :
            /\ response.body.sentiment = analysis[1]
            /\ response.body.themes = analysis[2]
            /\ response.body.reflection =
                  generate_reflection(_inst, analysis[1], analysis[2], analysis[3]).reflection

\* ------------------------------------------------------------- the insights

\* the modes that occur most often among the entries
C27_MostFrequentModes(recent_entries) ==
    LET modes == entry_modes(recent_entries)
    IN  {m \in Range(modes) : \A other \in Range(modes) : Count(other, modes) <= Count(m, modes)}

\* the opening sentence of the summary in the tone of each mode
C27_Opening ==
    [m \in {"low_energy", "anxious", "calm"} |->
        IF m = "low_energy" THEN "summary.low_energy.base"
        ELSE IF m = "anxious" THEN "summary.anxious.base"
        ELSE "summary.calm.base"]

\* C27: generate_insights gives a reflection summary only when the entry
\* count is at least 3, and the summary has the tone of the mode that is most
\* frequent among the recent entries
C27_SummaryOfDominantMode ==
    (insights_call.called /\ insights_call.insights.reflection_summary # NoReflectionSummary) =>
        /\ insights_call.entry_count >= 3
        /\ \E m \in C27_MostFrequentModes(insights_call.recent_entries) :
              insights_call.insights.reflection_summary[1] = C27_Opening[m]

\* the part of C27 about the entry count alone
C27_SummaryOnlyFromThreeEntries ==
    (insights_call.called /\ insights_call.insights.reflection_summary # NoReflectionSummary) =>
        /\ insights_call.entry_count >= 3
        /\ Len(insights_call.recent_entries) >= 3

\* ------------------------------------------------------- stress and burden

\* every keyword of the stress theme, taken as a text, is found by the
\* burden detector
C28_StressKeywordsAreBurden ==
    \A k \in DOMAIN THEME_KEYWORDS["stress"] :
        _detect_emotional_burden(THEME_KEYWORDS["stress"][k])

\* C28: whenever detect_themes lists stress, the burden detector is true for
\* the text, and analyze_entry returns the mode anxious and a label that is
\* not positive
C28_StressImpliesBurden ==
    /\ C28_StressKeywordsAreBurden
    /\ (called \in {"detect_themes", "analyze_entry"}
            /\ "stress" \in Range(result.themes.themes)) =>
          _detect_emotional_burden(input_content)
    /\ (called = "analyze_entry" /\ "stress" \in Range(result.themes.themes)) =>
          /\ result.mode = "anxious"
          /\ result.sentiment.label # "positive"

\* analyze_entry found the stress theme in a text without numbness whose
\* base polarity is above the positive threshold
C28_Witness ==
    /\ called = "analyze_entry"
    /\ "stress" \in Range(result.themes.themes)
    /\ ~Scans[input_content].numbness
    /\ input_blob.polarity > SENTIMENT_POSITIVE_THRESHOLD
    /\ result.sentiment.label = "neutral"
    /\ result.mode = "anxious"

\* ---------------------------------------------------------- emotional absence

\* the text contains numb, empty or flat as a whole word
C29_AbsenceWord ==
    \E keyword \in { <<"n","u","m","b">>, <<"e","m","p","t","y">>, <<"f","l","a","t">> } :
        _match_keyword_whole_word(keyword, lower(input_content))

\* no anxiety signal in the text: no burden keyword, no stress or loss theme,
\* no rumination phrase, no explicit-anxiety keyword
C29_NoAnxietySignal ==
    /\ ~_detect_emotional_burden(input_content)
    /\ keyword_count("stress", input_content) = 0
    /\ keyword_count("loss", input_content) = 0
    /\ ~has_rumination(input_content)
    /\ ~has_explicit_anxiety(input_content)

C29_WitnessWords ==
    /\ called = "analyze_entry"
    /\ C29_NoAnxietySignal
    /\ result.mode = "low_energy"
    /\ input_content \in {EmptyScenario, FlatScenario}

\* ------------------------------------------------- requests and the store

\* the step is a request that was answered
C30_Answered(op) ==
    /\ request'.op = op
    /\ << request', response' >> # << request, response >>

\* C30: a submit that ends in an error leaves the store as it was, a submit
\* that returns a record adds exactly one entry, and a retrieve request
\* never changes the store; so the entry count is the number of submits
\* that returned a record
C30_ErrorsLeaveStore ==
    [][ /\ (C30_Answered("create_entry") /\ response'.status # 201) =>
              GlobalEntries' = GlobalEntries
        /\ (C30_Answered("create_entry") /\ response'.status = 201) =>
              /\ Len(GlobalEntries') = Len(GlobalEntries) + 1
              /\ SubSeq(GlobalEntries', 1, Len(GlobalEntries)) = GlobalEntries
        /\ C30_Answered("get_entry") => GlobalEntries' = GlobalEntries
      ]_vars

\* a submit with valid content has ended in an error on a store that holds
\* an entry
C30_Witness ==
    /\ request.op = "create_entry"
    /\ ValidInput(request.content)
    /\ response.status = 500
    /\ GlobalEntries # <<>>

\* a submit with invalid content was rejected, and a retrieve request was
\* answered with the record, on a store that holds an entry
C30_WitnessOthers ==
    /\ GlobalEntries # <<>>
    /\ \/ request.op = "create_entry" /\ response.status = 422
       \/ request.op = "get_entry" /\ response.status = 200

\* ---------------------------------------------------------- the refinement

\* the text holds a directive or a clinical word, as a whole word
C23_Vocabulary(text) ==
    \/ \E k \in DOMAIN advice_keywords :
          _match_keyword_whole_word(advice_keywords[k], lower(text))
    \/ \E k \in DOMAIN clinical_terms :
          _match_keyword_whole_word(clinical_terms[k], lower(text))

\* the reflection is one that passed the validation
C23_Validated(reflection) ==
    /\ reflection.message # NoText
    /\ Len(reflection.message) >= 50
    /\ Len(reflection.message) <= 1000
    /\ ~C23_Vocabulary(reflection.message)
    /\ reflection.prompt # NoText => ~C23_Vocabulary(reflection.prompt)

\* the call was made with the refinement disabled or without a key, or the
\* service failed or answered nothing
C23_NoAnswer ==
    \/ ~refine_call.USE_OPENAI_REFINEMENT
    \/ refine_call.OPENAI_API_KEY = ""
    \/ refine_call.completion.exception # None
    \/ refine_call.completion.content \in {NoText, <<>>}

\* C23: refine_reflection_with_llm never raises; it returns the base
\* reflection unchanged or a reflection that passed the validation; when it
\* is disabled or not configured, and on every failure, it returns the base
\* reflection
C23_BaseOrValidated ==
    refine_call.called =>
        /\ refine_call.outcome.exception = None
        /\ \/ refine_call.outcome.value = refine_call.base_reflection
           \/ C23_Validated(refine_call.outcome.value)
        /\ C23_NoAnswer => refine_call.outcome.value = refine_call.base_reflection
        /\ LET parsed == _parse_llm_response(refine_call.completion.content)
           IN  (~C23_NoAnswer
                   /\ \/ parsed[1] = <<>>
                      \/ Len(parsed[1]) < 50
                      \/ Len(parsed[1]) > 1000
                      \/ C23_Vocabulary(parsed[1])
                      \/ C23_Vocabulary(or_empty(parsed[2]))
                      \/ Len(or_empty(parsed[2])) > MAX_PROMPT_LENGTH)
               => refine_call.outcome.value = refine_call.base_reflection

\* a refined reflection with a prompt was returned
C23_Witness ==
    /\ refine_call.called
    /\ refine_call.outcome.value # refine_call.base_reflection
    /\ C23_Validated(refine_call.outcome.value)
    /\ refine_call.outcome.value.prompt # NoText

\* the base reflection was returned after a timeout
C23_WitnessTimeout ==
    /\ refine_call.called
    /\ _is_openai_available(refine_call.OPENAI_API_KEY, refine_call.USE_OPENAI_REFINEMENT)
    /\ refine_call.completion.exception = "APITimeoutError"
    /\ refine_call.outcome = Return(refine_call.base_reflection)

\* the base reflection was returned because the model rejected a prompt
\* that is too long, after the validation had passed
C23_WitnessSchema ==
    /\ refine_call.called
    /\ ~C23_NoAnswer
    /\ LET parsed == _parse_llm_response(refine_call.completion.content)
       IN  /\ _validate_refined_reflection(parsed[1], parsed[2], refine_call.base_reflection)
           /\ Len(or_empty(parsed[2])) > MAX_PROMPT_LENGTH
    /\ refine_call.outcome = Return(refine_call.base_reflection)

\* the base reflection was returned because of a directive phrase in the
\* prompt of the answer
C23_WitnessPrompt ==
    /\ refine_call.called
    /\ ~C23_NoAnswer
    /\ LET parsed == _parse_llm_response(refine_call.completion.content)
       IN  /\ Len(parsed[1]) >= 50
           /\ ~C23_Vocabulary(parsed[1])
           /\ C23_Vocabulary(or_empty(parsed[2]))
    /\ refine_call.outcome = Return(refine_call.base_reflection)
=============================================================================
